---- MODULE Spec2Model ----
(***************************************************************************)
(* Verification model of the CleanArchCpp teaching corpus.                 *)
(*                                                                         *)
(* The repository is a set of independent example programs.  Each example  *)
(* that is analysed here is modelled as its own state machine over its own *)
(* variables and has its own specification; the variables of the other     *)
(* examples stay at their initial values under that specification.         *)
(*                                                                         *)
(*   SpecCmd   CommandInvoker / ModernCalculator                           *)
(*             (src/pattern/dp_command_pattern_optimized.cpp)              *)
(*   SpecObs   WeatherStation and its displays                             *)
(*             (src/dp_observer_pattern.cpp)                               *)
(*   SpecCt    TypeErasureContainer                                        *)
(*             (src/pattern/dp_type_erasure_optimized.cpp)                 *)
(*   SpecMe    ModernTypeEraser                                            *)
(*             (src/pattern/dp_type_erasure_optimized.cpp)                 *)
(*   SpecDr    Drawable                                                    *)
(*             (src/cpp/dp_type_erasure.cpp)                               *)
(*   SpecMacro MacroCommand over the Calculator                            *)
(*             (src/pattern/dp_command_pattern_optimized.cpp)              *)
(*   SpecRc    RemoteControl                                               *)
(*             (src/dp_command_pattern.cpp)                                *)
(*   SpecDb    DatabaseConnection                                          *)
(*             (src/pattern/dp_raii_optimized.cpp, src/dp_raii.cpp)        *)
(*   SpecRm    Rule of Three / Five resource managers                      *)
(*             (src/pattern/dp_rule_of_three.cpp)                          *)
(*   SpecUc    UserController                                              *)
(*             (src/clean_architecture_example.cpp)                        *)
(*   SpecCr    CRTP object counting                                        *)
(*             (src/dp_crtp.cpp, src/pattern/dp_crtp_optimized.cpp)        *)
(*   SpecTs    ThreadSafeResourceManager                                   *)
(*             (src/pattern/dp_raii_optimized.cpp)                         *)
(*   SpecSg    Singleton                                                   *)
(*             (src/dp_crtp.cpp, src/pattern/dp_crtp_optimized.cpp)        *)
(*   SpecLsp   BadRectangle / BadSquare                                    *)
(*             (src/pattern/dp_lsp_optimized.cpp, src/dp_lsp.cpp)          *)
(***************************************************************************)
EXTENDS Integers, Sequences, FiniteSets, TLC

(***************************************************************************)
(* Generic helpers                                                         *)
(***************************************************************************)
Last(s) == s[Len(s)]

Front(s) == SubSeq(s, 1, Len(s) - 1)

RECURSIVE Pow2(_)
Pow2(n) == IF n = 0 THEN 1 ELSE 2 * Pow2(n - 1)

(***************************************************************************)
(* ======================  COMMAND PATTERN  ============================== *)
(* src/pattern/dp_command_pattern_optimized.cpp                            *)
(***************************************************************************)

\* Width of the modelled `int` (the program's int has 32 bits; the model keeps
\* two's-complement wrap-around at a reduced width so that overflow is reached).
IntBits == 3

\* Largest number of commands the invoker's two stacks hold together.
MaxHist == 3

Modulus == Pow2(IntBits)

MinInt == 0 - Pow2(IntBits - 1)

MaxInt == Pow2(IntBits - 1) - 1

\* Operand values a command is created with (CommandFactory::create*Command).
CmdValues == {0 - 1, 0, 2}

CmdKinds == {"Add", "Subtract", "Multiply", "Divide"}

\* What a build does on signed overflow, which is undefined behaviour:
\*   "x86"   + - * wrap, INT_MIN / -1 traps (SIGFPE)
\*   "arm"   + - * wrap, INT_MIN / -1 yields INT_MIN
\*   "trapv" every signed overflow aborts (-ftrapv, UBSan trap)
Builds == {"x86", "arm", "trapv"}

VARIABLES
    result_,        \* ModernCalculator::result_
    undoStack_,     \* CommandInvoker::undoStack_  (top is the last element)
    redoStack_,     \* CommandInvoker::redoStack_  (top is the last element)
    build,          \* the build's treatment of signed overflow
    crashed,        \* the process was terminated by a trap
    lastOp,         \* history: the invoker call that returned last
    lastDid,        \* history: that call found a command to undo / redo
    before,         \* history: result_ when that call was entered
    dropped,        \* history: redo entries discarded by that call
    ghostBefore     \* history: result_ before each command on undoStack_ ran

cmdVars == <<result_, undoStack_, redoStack_, build, crashed,
             lastOp, lastDid, before, dropped, ghostBefore>>

\* ---- WeatherStation (src/dp_observer_pattern.cpp) ----
VARIABLES
    observers,      \* WeatherStation::observers (vector, in push_back order)
    temperature,    \* WeatherStation::temperature
    humidity,       \* WeatherStation::humidity
    pressure,       \* WeatherStation::pressure
    updates,        \* the update() calls made by the last notify(), in order
    obsOp,          \* history: the WeatherStation call that returned last
    obsMsg,         \* history: the message the last notify() was given
    attachedSet,    \* history: observers attached and not detached since
    attachCount     \* history: attach calls minus effective detach calls

obsVars == <<observers, temperature, humidity, pressure, updates,
             obsOp, obsMsg, attachedSet, attachCount>>

\* ---- TypeErasureContainer (src/pattern/dp_type_erasure_optimized.cpp) ----
VARIABLES
    operations_,    \* TypeErasureContainer::operations_
    executed,       \* lines written by the last executeAll(), in order
    ctOp,           \* history: the container call that returned last
    added           \* history: the values passed to add() since the last clear()

ctVars == <<operations_, executed, ctOp, added>>

\* ---- ModernTypeEraser (src/pattern/dp_type_erasure_optimized.cpp) ----
VARIABLES
    erasers,        \* the ModernTypeEraser objects of the program, by variable
    meCall,         \* history: the last operation on an eraser and its result
    wrapped         \* history: the concrete value each eraser stands for

meVars == <<erasers, meCall, wrapped>>

\* ---- Drawable (src/cpp/dp_type_erasure.cpp) ----
VARIABLES
    drawables,      \* the Drawable objects of the program, by variable
    models,         \* the heap: the Model<T> objects owned through pImpl
    drCrashed,      \* the process was terminated by a fault
    drCall          \* history: the last operation on a Drawable

drVars == <<drawables, models, drCrashed, drCall>>

\* ---- MacroCommand (src/pattern/dp_command_pattern_optimized.cpp) ----
VARIABLES
    macroCalc,      \* ModernCalculator::result_ of the macro's calculator
    commands_,      \* MacroCommand::commands_
    macroCrashed,   \* the process was terminated by an overflow trap
    macroOp,        \* history: the last operation on the macro
    macroBefore,    \* history: the calculator result before the last execute()
    macroTrace      \* history: positions run by the last execute() / undo()

macroVars == <<macroCalc, commands_, macroCrashed, macroOp, macroBefore,
               macroTrace>>

\* ---- RemoteControl (src/dp_command_pattern.cpp) ----
VARIABLES
    devices,        \* the receivers: lights, garage door, stereo
    lastCommand,    \* RemoteControl::lastCommand
    rcOp,           \* history: the last button pressed
    rcPushed,       \* history: the commands run by the latest on/off presses
    rcUndos,        \* history: undo presses since the last on/off press
    rcUndone        \* history: the command whose undo() the last press ran

rcVars == <<devices, lastCommand, rcOp, rcPushed, rcUndos, rcUndone>>

\* ---- DatabaseConnection (src/pattern/dp_raii_optimized.cpp, src/dp_raii.cpp) ----
VARIABLES
    dbObjects,      \* the DatabaseConnection objects of the program, by variable
    ledger,         \* history: what happened to every connection ever opened
    dbCall          \* history: the last operation on a DatabaseConnection

dbVars == <<dbObjects, ledger, dbCall>>

\* ---- GoodResourceManager / BetterResourceManager
\* ---- (src/pattern/dp_rule_of_three.cpp)
VARIABLES
    managers,       \* the resource manager objects of the program, by variable
    buffers,        \* the heap: the int arrays made by new int[size]
    rmFault,        \* a delete[] was applied to an array that is not alive
    rmCall          \* history: the last operation on a manager

rmVars == <<managers, buffers, rmFault, rmCall>>

\* ---- UserController (src/clean_architecture_example.cpp) ----
VARIABLES
    users_,         \* InMemoryUserRepository::users_
    nextId,         \* CreateUserUseCase::generateId: static int nextId
    ucCall          \* history: the last controller call and what was presented

ucVars == <<users_, nextId, ucCall>>

\* ---- CRTP object counting (src/dp_crtp.cpp, dp_crtp_optimized.cpp) ----
VARIABLES
    crObjects,      \* slot -> the counted type of the live object, or "none"
    counts,         \* counted type -> its static counter (Base::count, count_)
    crCall          \* history: the last operation and what getCount returned

crVars == <<crObjects, counts, crCall>>

\* ---- ThreadSafeResourceManager (src/pattern/dp_raii_optimized.cpp) ----
VARIABLES
    resources_,     \* ThreadSafeResourceManager::resources_: name -> data
    mutex_,         \* ThreadSafeResourceManager::mutex_: the owner, or NoOwner
    threads,        \* thread -> its position in the call it is making
    tsCall          \* history: the last call that returned

tsVars == <<resources_, mutex_, threads, tsCall>>

\* ---- Singleton (src/dp_crtp.cpp, dp_crtp_optimized.cpp,
\*      dp_rule_of_three_optimized.cpp) ----
VARIABLES
    sgObjects,      \* the singleton objects constructed so far, by type
    instance,       \* type -> the function-local static: an index into
                    \* sgObjects, or NotConstructed before the first call
    refs,           \* caller -> the reference it holds: [type, object]
    sgOut,          \* what the singletons have written to the streams
    sgCall          \* history: the last call and the object it acted on

sgVars == <<sgObjects, instance, refs, sgOut, sgCall>>

\* ---- BadRectangle / BadSquare (src/dp_lsp.cpp, dp_lsp_optimized.cpp) ----
VARIABLES
    shapes,         \* slot -> [class, width_, height_, setters]: the object
                    \* behind a BadRectangle*, with the setter calls made on it
    lspCall         \* history: the last call and what getArea returned

lspVars == <<shapes, lspCall>>

vars == <<cmdVars, obsVars, ctVars, meVars, drVars, macroVars, rcVars,
         dbVars, rmVars, ucVars, crVars, tsVars, sgVars, lspVars>>

\* Two's-complement reduction of a mathematical integer to the int range.
Wrap(x) == ((x - MinInt) % Modulus) + MinInt

Overflows(x) == x < MinInt \/ x > MaxInt

Abs(x) == IF x < 0 THEN 0 - x ELSE x

\* C++ integer division truncates toward zero.
TruncDiv(a, b) ==
    IF (a < 0) = (b < 0) THEN Abs(a) \div Abs(b) ELSE 0 - (Abs(a) \div Abs(b))

\* The outcome of a checked arithmetic step: the new value, or a trap.
Arith(x, b) ==
    IF Overflows(x)
    THEN IF b = "trapv" THEN [trap |-> TRUE, val |-> 0]
                        ELSE [trap |-> FALSE, val |-> Wrap(x)]
    ELSE [trap |-> FALSE, val |-> x]

\* ModernCalculator::add / subtract / multiply / divide applied to result r.
CalcAdd(r, v, b) == Arith(r + v, b)

CalcSubtract(r, v, b) == Arith(r - v, b)

CalcMultiply(r, v, b) == Arith(r * v, b)

CalcDivide(r, v, b) ==
    IF v # 0
    THEN IF r = MinInt /\ v = 0 - 1
         THEN IF b = "arm" THEN [trap |-> FALSE, val |-> MinInt]
                           ELSE [trap |-> TRUE, val |-> 0]
         ELSE [trap |-> FALSE, val |-> TruncDiv(r, v)]
    ELSE [trap |-> FALSE, val |-> r]

\* A freshly made command object: previousResult_ = 0 until it executes.
NewCommand(kind, v) == [kind |-> kind, value_ |-> v, previousResult_ |-> 0]

\* <Kind>Command::execute(): remember the result, then apply the operation.
\* Yields the command as it is afterwards and the calculator outcome.
CommandExecuteMutNoSnapshot(c, r, b) ==
    [cmd |-> c,
     out |-> CASE c.kind = "Add"      -> CalcAdd(r, c.value_, b)
               [] c.kind = "Subtract" -> CalcSubtract(r, c.value_, b)
               [] c.kind = "Multiply" -> CalcMultiply(r, c.value_, b)
               [] c.kind = "Divide"   -> CalcDivide(r, c.value_, b)]

CommandExecute(c, r, b) ==
    [cmd |-> [c EXCEPT !.previousResult_ = r],
     out |-> CASE c.kind = "Add"      -> CalcAdd(r, c.value_, b)
               [] c.kind = "Subtract" -> CalcSubtract(r, c.value_, b)
               [] c.kind = "Multiply" -> CalcMultiply(r, c.value_, b)
               [] c.kind = "Divide"   -> CalcDivide(r, c.value_, b)]

\* <Kind>Command::undo(): calculator_.setResult(previousResult_).
CommandUndo(c, r) == c.previousResult_

\* The redo stack as executeCommand leaves it.
RedoAfterExecuteMutKeep(redo) == redo

RedoAfterExecute(redo) == << >>

CmdStart(builds) ==
    /\ result_ = 0
    /\ undoStack_ = << >>
    /\ redoStack_ = << >>
    /\ build \in builds
    /\ crashed = FALSE
    /\ lastOp = "none"
    /\ lastDid = FALSE
    /\ before = 0
    /\ dropped = 0
    /\ ghostBefore = << >>

\* CommandInvoker::executeCommand(std::unique_ptr<Command>)
ExecuteCommand(kind, v) ==
    /\ ~crashed
    /\ Len(undoStack_) < MaxHist
    /\ LET ex == CommandExecute(NewCommand(kind, v), result_, build)
       IN IF ex.out.trap
          THEN /\ crashed' = TRUE
               /\ UNCHANGED <<result_, undoStack_, redoStack_, build,
                              lastOp, lastDid, before, dropped, ghostBefore>>
          ELSE /\ result_' = ex.out.val
               /\ undoStack_' = Append(undoStack_, ex.cmd)
               /\ redoStack_' = RedoAfterExecute(redoStack_)
               /\ lastOp' = "exec"
               /\ lastDid' = TRUE
               /\ before' = result_
               /\ dropped' = Len(redoStack_)
               /\ ghostBefore' = Append(ghostBefore, result_)
               /\ UNCHANGED <<build, crashed>>

\* CommandInvoker::undo()
Undo ==
    /\ ~crashed
    /\ IF undoStack_ # << >>
       THEN LET command == Last(undoStack_)
            IN /\ undoStack_' = Front(undoStack_)
               /\ result_' = CommandUndo(command, result_)
               /\ redoStack_' = Append(redoStack_, command)
               /\ lastDid' = TRUE
               /\ ghostBefore' = Front(ghostBefore)
       ELSE /\ lastDid' = FALSE
            /\ UNCHANGED <<undoStack_, result_, redoStack_, ghostBefore>>
    /\ lastOp' = "undo"
    /\ before' = result_
    /\ dropped' = 0
    /\ UNCHANGED <<build, crashed>>

\* CommandInvoker::redo()
Redo ==
    /\ ~crashed
    /\ IF redoStack_ # << >>
       THEN LET ex == CommandExecute(Last(redoStack_), result_, build)
            IN IF ex.out.trap
               THEN /\ crashed' = TRUE
                    /\ UNCHANGED <<result_, undoStack_, redoStack_, build,
                                   lastOp, lastDid, before, dropped, ghostBefore>>
               ELSE /\ redoStack_' = Front(redoStack_)
                    /\ result_' = ex.out.val
                    /\ undoStack_' = Append(undoStack_, ex.cmd)
                    /\ lastOp' = "redo"
                    /\ lastDid' = TRUE
                    /\ before' = result_
                    /\ dropped' = 0
                    /\ ghostBefore' = Append(ghostBefore, result_)
                    /\ UNCHANGED <<build, crashed>>
       ELSE /\ lastOp' = "redo"
            /\ lastDid' = FALSE
            /\ before' = result_
            /\ dropped' = 0
            /\ UNCHANGED <<result_, undoStack_, redoStack_, build, crashed,
                           ghostBefore>>

\* CommandInvoker::canUndo() / canRedo()
canUndo == undoStack_ # << >>

canRedo == redoStack_ # << >>

(***************************************************************************)
(* ======================  OBSERVER PATTERN  ============================= *)
(* src/dp_observer_pattern.cpp                                             *)
(***************************************************************************)

\* Largest number of entries of WeatherStation::observers.
MaxObservers == 3

\* The observers main() creates: currentDisplay, statisticsDisplay,
\* forecastDisplay.
ObserverIds == {"Current Display", "Statistics Display", "Forecast Display"}

\* Sensor readings passed to setMeasurements.
Readings == {0, 1}

\* Messages passed to notify() directly.
DirectMessages == {"storm warning"}

\* std::to_string(float): a reading rendered with six decimals.
FloatToString(x) == <<x, "000000">>

\* The message setMeasurements builds from the three readings.
WeatherMessage(t, h, p) ==
    <<"Temperature: ", FloatToString(t), "C, Humidity: ", FloatToString(h),
      "%, Pressure: ", FloatToString(p), " hPa">>

\* std::find(observers.begin(), observers.end(), o): index of the first
\* entry equal to o, 0 for end().
FindFirst(seq, o) ==
    IF \E i \in 1..Len(seq) : seq[i] = o
    THEN CHOOSE i \in 1..Len(seq) :
            seq[i] = o /\ \A j \in 1..(i - 1) : seq[j] # o
    ELSE 0

\* vector::erase(it)
EraseAt(seq, i) == SubSeq(seq, 1, i - 1) \o SubSeq(seq, i + 1, Len(seq))

\* The loop of notify(): observer->update(message) for each entry in turn.
RECURSIVE NotifyLoopMutSkipRepeated(_, _, _)
NotifyLoopMutSkipRepeated(seq, i, message) ==
    IF i > Len(seq) THEN << >>
    ELSE IF \E j \in 1..(i - 1) : seq[j] = seq[i]
         THEN NotifyLoopMutSkipRepeated(seq, i + 1, message)
         ELSE <<[observer |-> seq[i], message |-> message]>>
                \o NotifyLoopMutSkipRepeated(seq, i + 1, message)

RECURSIVE NotifyLoop(_, _, _)
NotifyLoop(seq, i, message) ==
    IF i > Len(seq) THEN << >>
    ELSE <<[observer |-> seq[i], message |-> message]>>
           \o NotifyLoop(seq, i + 1, message)

ObsInit ==
    /\ observers = << >>
    /\ temperature = 0
    /\ humidity = 0
    /\ pressure = 0
    /\ updates = << >>
    /\ obsOp = "none"
    /\ obsMsg = << >>
    /\ attachedSet = {}
    /\ attachCount = [o \in ObserverIds |-> 0]

\* WeatherStation::attach
Attach(o) ==
    /\ Len(observers) < MaxObservers
    /\ observers' = Append(observers, o)
    /\ obsOp' = "attach"
    /\ attachedSet' = attachedSet \cup {o}
    /\ attachCount' = [attachCount EXCEPT ![o] = @ + 1]
    /\ UNCHANGED <<temperature, humidity, pressure, updates, obsMsg>>

\* WeatherStation::detach
Detach(o) ==
    /\ LET it == FindFirst(observers, o)
       IN IF it # 0
          THEN /\ observers' = EraseAt(observers, it)
               /\ attachCount' = [attachCount EXCEPT ![o] = @ - 1]
          ELSE UNCHANGED <<observers, attachCount>>
    /\ obsOp' = "detach"
    /\ attachedSet' = attachedSet \ {o}
    /\ UNCHANGED <<temperature, humidity, pressure, updates, obsMsg>>

\* WeatherStation::notify
Notify(message) ==
    /\ updates' = NotifyLoop(observers, 1, message)
    /\ obsOp' = "notify"
    /\ obsMsg' = message
    /\ UNCHANGED <<observers, temperature, humidity, pressure,
                   attachedSet, attachCount>>

\* WeatherStation::setMeasurements
SetMeasurements(t, h, p) ==
    /\ temperature' = t
    /\ humidity' = h
    /\ pressure' = p
    /\ updates' = NotifyLoop(observers, 1, WeatherMessage(t, h, p))
    /\ obsOp' = "setMeasurements"
    /\ obsMsg' = WeatherMessage(t, h, p)
    /\ UNCHANGED <<observers, attachedSet, attachCount>>

(***************************************************************************)
(* ======================  TYPE-ERASURE CONTAINER  ======================= *)
(* src/pattern/dp_type_erasure_optimized.cpp                               *)
(***************************************************************************)

\* Largest number of elements of TypeErasureContainer::operations_.
MaxOps == 3

\* The operations main() adds: two PrintOperation, one MathOperation.
OperationValues ==
    {[type |-> "Print", arg |-> "Hello, Type Erasure!"],
     [type |-> "Print", arg |-> "Another message"],
     [type |-> "Math", arg |-> 42]}

\* PrintOperation::execute / MathOperation::execute: the line written.
OperationExecute(op) ==
    IF op.type = "Print" THEN <<"Printing: ", op.arg>>
                         ELSE <<"Calculating with value: ", op.arg>>

\* OperationWrapper<T>::execute forwards to the wrapped operation_.
WrapperExecute(w) == OperationExecute(w.operation_)

\* std::make_unique<OperationWrapper<T>>(std::move(value))
MakeWrapper(value) == [operation_ |-> value]

\* The loop of executeAll(): op->execute() for each element in turn.
RECURSIVE ExecuteAllLoopMutReverse(_, _)
ExecuteAllLoopMutReverse(ops, i) ==
    IF i > Len(ops) THEN << >>
    ELSE ExecuteAllLoopMutReverse(ops, i + 1) \o <<WrapperExecute(ops[i])>>

RECURSIVE ExecuteAllLoop(_, _)
ExecuteAllLoop(ops, i) ==
    IF i > Len(ops) THEN << >>
    ELSE <<WrapperExecute(ops[i])>> \o ExecuteAllLoop(ops, i + 1)

CtInit ==
    /\ operations_ = << >>
    /\ executed = << >>
    /\ ctOp = "none"
    /\ added = << >>

\* TypeErasureContainer::add
ContainerAdd(value) ==
    /\ Len(operations_) < MaxOps
    /\ operations_' = Append(operations_, MakeWrapper(value))
    /\ ctOp' = "add"
    /\ added' = Append(added, value)
    /\ UNCHANGED executed

\* TypeErasureContainer::executeAll
ContainerExecuteAll ==
    /\ executed' = ExecuteAllLoop(operations_, 1)
    /\ ctOp' = "executeAll"
    /\ UNCHANGED <<operations_, added>>

\* TypeErasureContainer::clear
ContainerClear ==
    /\ operations_' = << >>
    /\ ctOp' = "clear"
    /\ added' = << >>
    /\ UNCHANGED executed

\* TypeErasureContainer::size
ContainerSize == Len(operations_)

(***************************************************************************)
(* ======================  MODERN TYPE ERASER  =========================== *)
(* src/pattern/dp_type_erasure_optimized.cpp                               *)
(***************************************************************************)

\* Number of ModernTypeEraser variables of the modelled program.
NumErasers == 2

EraserSlots == 1..NumErasers

\* The concrete types the program wraps, and the constructor arguments used.
EraserTypes == {"Calculator", "Adder", "Multiplier"}

EraserParams == {3, 5}

\* Arguments passed to calculate(int).
CalcArgs == {7}

\* Calculator(multiplier) / Adder(addend) / Multiplier(factor)
MakeValue(type, n) == [type |-> type, n |-> n]

WrappableValues == {MakeValue(t, n) : t \in EraserTypes, n \in EraserParams}

NoValue == [type |-> "none", n |-> 0]

\* Calculator::calculate / Adder::calculate / Multiplier::calculate
ValueCalculate(v, x) ==
    CASE v.type = "Calculator" -> x * v.n
      [] v.type = "Adder"      -> x + v.n
      [] v.type = "Multiplier" -> x * v.n

\* Calculator::print / Adder::print / Multiplier::print: the line written.
ValuePrint(v) ==
    CASE v.type = "Calculator" -> <<"Calculator with multiplier: ", v.n>>
      [] v.type = "Adder"      -> <<"Adder with addend: ", v.n>>
      [] v.type = "Multiplier" -> <<"Multiplier with factor: ", v.n>>

\* typeid(T).name()
TypeName(v) == v.type

\* The implicit move constructor of Calculator / Adder / Multiplier copies the
\* int member: the content of the moved-from object is what it was.
MovedFromContent(v) == v

\* A std::function without a target.
NoTarget == [has |-> FALSE, val |-> NoValue, fromMoved |-> FALSE]

\* A std::function holding a lambda whose init-capture `value = std::move(value)`
\* was move-constructed from an object of content v; fromMoved tells that this
\* object had already been moved from when the capture was made.
Closure(v, fromMoved) == [has |-> TRUE, val |-> v, fromMoved |-> fromMoved]

\* ModernTypeEraser() = default
EmptyEraser ==
    [live |-> TRUE, printFunc_ |-> NoTarget, calculateFunc_ |-> NoTarget,
     cloneFunc_ |-> NoTarget, typeName_ |-> ""]

\* No object (before construction, after destruction).
NoEraser ==
    [live |-> FALSE, printFunc_ |-> NoTarget, calculateFunc_ |-> NoTarget,
     cloneFunc_ |-> NoTarget, typeName_ |-> ""]

\* template<typename T> ModernTypeEraser(T value): the three member
\* initialisers run in declaration order and each moves from the parameter
\* `value`; remnant tells whether the parameter itself was built from a
\* moved-from object.
ConstructEraser(v, remnant) ==
    [live |-> TRUE,
     printFunc_ |-> Closure(v, remnant),
     calculateFunc_ |-> Closure(MovedFromContent(v), TRUE),
     cloneFunc_ |-> Closure(MovedFromContent(MovedFromContent(v)), TRUE),
     typeName_ |-> TypeName(v)]

\* Copy of a std::function: the target, with its captured value, is copied.
CopyFunction(f) == f

\* ModernTypeEraser(const ModernTypeEraser&) and the body of operator=(const&)
CopyEraser(w) ==
    [live |-> TRUE,
     printFunc_ |-> CopyFunction(w.printFunc_),
     calculateFunc_ |-> CopyFunction(w.calculateFunc_),
     cloneFunc_ |-> CopyFunction(w.cloneFunc_),
     typeName_ |-> w.typeName_]

\* The source of a defaulted move.  A moved-from std::function is in a valid
\* but unspecified state: empty (libstdc++), or still holding a copy of a
\* target kept in the small-object buffer (libc++); keeps says which.
MovedFromEraser(w, keeps) ==
    IF keeps THEN [w EXCEPT !.typeName_ = ""] ELSE EmptyEraser

\* ModernTypeEraser::print: how the call ends and the lines written.
EraserPrintMutUnchecked(w) ==
    [status |-> IF w.printFunc_.has THEN "returned" ELSE "threw",
     out |-> IF w.printFunc_.has THEN <<ValuePrint(w.printFunc_.val)>>
                                 ELSE << >>]

EraserPrint(w) ==
    [status |-> "returned",
     out |-> IF w.printFunc_.has THEN <<ValuePrint(w.printFunc_.val)>>
                                 ELSE << >>]

\* ModernTypeEraser::calculate: how the call ends and the value returned.
EraserCalculateMutNoDispatch(w, x) == [status |-> "returned", ret |-> 0]

EraserCalculate(w, x) ==
    [status |-> "returned",
     ret |-> IF w.calculateFunc_.has
             THEN ValueCalculate(w.calculateFunc_.val, x) ELSE 0]

\* ModernTypeEraser::clone: the eraser returned.
EraserClone(w) ==
    IF w.cloneFunc_.has
    THEN ConstructEraser(w.cloneFunc_.val, w.cloneFunc_.fromMoved)
    ELSE EmptyEraser

\* The eraser clone() was called on, afterwards: the mutable lambda has moved
\* its captured value out.
CloneSourceAfterMutEmptied(w) == [w EXCEPT !.cloneFunc_ = NoTarget]

CloneSourceAfter(w) ==
    IF w.cloneFunc_.has THEN [w EXCEPT !.cloneFunc_.fromMoved = TRUE] ELSE w

\* ModernTypeEraser::isValid
EraserIsValid(w) == w.printFunc_.has /\ w.calculateFunc_.has

\* ModernTypeEraser::getTypeName
EraserGetTypeName(w) == w.typeName_

\* The concrete behaviours an eraser dispatches to, per capability.
Behaviours(w) ==
    [print |-> w.printFunc_.val.type,
     calculate |-> w.calculateFunc_.val.type,
     clone |-> w.cloneFunc_.val.type]

NoBehaviours == [print |-> "none", calculate |-> "none", clone |-> "none"]

MeCall(op, slot, src, arg, status, ret, out, empty, prev) ==
    [op |-> op, slot |-> slot, src |-> src, arg |-> arg, status |-> status,
     ret |-> ret, out |-> out, empty |-> empty, prev |-> prev]

MeInit ==
    /\ erasers = [s \in EraserSlots |-> NoEraser]
    /\ meCall = MeCall("none", 0, 0, 0, "returned", 0, << >>, FALSE,
                       NoBehaviours)
    /\ wrapped = [s \in EraserSlots |-> NoValue]

\* ModernTypeEraser e;
MeDefaultConstruct(d) ==
    /\ ~erasers[d].live
    /\ erasers' = [erasers EXCEPT ![d] = EmptyEraser]
    /\ wrapped' = [wrapped EXCEPT ![d] = NoValue]
    /\ meCall' = MeCall("default", d, 0, 0, "returned", 0, << >>, FALSE,
                        NoBehaviours)

\* ModernTypeEraser e(Calculator(5));
MeConstruct(d, v) ==
    /\ ~erasers[d].live
    /\ erasers' = [erasers EXCEPT ![d] = ConstructEraser(v, FALSE)]
    /\ wrapped' = [wrapped EXCEPT ![d] = v]
    /\ meCall' = MeCall("construct", d, 0, 0, "returned", 0, << >>, FALSE,
                        NoBehaviours)

\* ModernTypeEraser d(s);   copy constructor
MeCopyConstruct(d, s) ==
    /\ ~erasers[d].live
    /\ erasers[s].live
    /\ erasers' = [erasers EXCEPT ![d] = CopyEraser(erasers[s])]
    /\ wrapped' = [wrapped EXCEPT ![d] = wrapped[s]]
    /\ meCall' = MeCall("copyConstruct", d, s, 0, "returned", 0, << >>,
                        FALSE, NoBehaviours)

\* d = s;   copy assignment
MeCopyAssign(d, s) ==
    /\ erasers[d].live
    /\ erasers[s].live
    /\ erasers' = IF d # s THEN [erasers EXCEPT ![d] = CopyEraser(erasers[s])]
                           ELSE erasers
    /\ wrapped' = [wrapped EXCEPT ![d] = wrapped[s]]
    /\ meCall' = MeCall("copyAssign", d, s, 0, "returned", 0, << >>, FALSE,
                        Behaviours(erasers[d]))

\* ModernTypeEraser d(std::move(s));   defaulted move constructor
MeMoveConstruct(d, s, keeps) ==
    /\ ~erasers[d].live
    /\ erasers[s].live
    /\ erasers' = [erasers EXCEPT ![d] = [erasers[s] EXCEPT !.live = TRUE],
                                  ![s] = MovedFromEraser(erasers[s], keeps)]
    /\ wrapped' = [wrapped EXCEPT ![d] = wrapped[s],
                                  ![s] = IF keeps THEN wrapped[s] ELSE NoValue]
    /\ meCall' = MeCall("moveConstruct", d, s, 0, "returned", 0, << >>,
                        FALSE, Behaviours(erasers[s]))

\* d = std::move(s);   defaulted move assignment (member-wise; on d = s the
\* unspecified moved-from state is the state of the object itself)
MeMoveAssign(d, s, keeps) ==
    /\ erasers[d].live
    /\ erasers[s].live
    /\ erasers' = IF d # s
                  THEN [erasers EXCEPT ![d] = erasers[s],
                                       ![s] = MovedFromEraser(erasers[s], keeps)]
                  ELSE [erasers EXCEPT ![s] = MovedFromEraser(erasers[s], keeps)]
    /\ wrapped' = IF d # s
                  THEN [wrapped EXCEPT ![d] = wrapped[s],
                           ![s] = IF keeps THEN wrapped[s] ELSE NoValue]
                  ELSE [wrapped EXCEPT
                           ![s] = IF keeps THEN wrapped[s] ELSE NoValue]
    /\ meCall' = MeCall("moveAssign", d, s, 0, "returned", 0, << >>, FALSE,
                        Behaviours(erasers[d]))

\* e.print();
MePrint(s) ==
    /\ erasers[s].live
    /\ LET r == EraserPrint(erasers[s])
       IN meCall' = MeCall("print", s, 0, 0, r.status, 0, r.out,
                           ~erasers[s].printFunc_.has, Behaviours(erasers[s]))
    /\ UNCHANGED <<erasers, wrapped>>

\* e.calculate(x);
MeCalculate(s, x) ==
    /\ erasers[s].live
    /\ LET r == EraserCalculate(erasers[s], x)
       IN meCall' = MeCall("calculate", s, 0, x, r.status, r.ret, << >>,
                           ~erasers[s].calculateFunc_.has,
                           Behaviours(erasers[s]))
    /\ UNCHANGED <<erasers, wrapped>>

\* auto d = s.clone();
MeClone(d, s) ==
    /\ ~erasers[d].live
    /\ erasers[s].live
    /\ erasers' = [erasers EXCEPT ![d] = EraserClone(erasers[s]),
                                  ![s] = CloneSourceAfter(erasers[s])]
    /\ wrapped' = [wrapped EXCEPT
                      ![d] = IF erasers[s].cloneFunc_.has THEN wrapped[s]
                                                          ELSE NoValue]
    /\ meCall' = MeCall("clone", s, d, 0, "returned", 0, << >>,
                        ~erasers[s].cloneFunc_.has, Behaviours(erasers[s]))

\* the eraser goes out of scope
MeDestroy(s) ==
    /\ erasers[s].live
    /\ erasers' = [erasers EXCEPT ![s] = NoEraser]
    /\ wrapped' = [wrapped EXCEPT ![s] = NoValue]
    /\ meCall' = MeCall("destroy", s, 0, 0, "returned", 0, << >>, FALSE,
                        NoBehaviours)

(***************************************************************************)
(* ==========================  DRAWABLE  ================================= *)
(* src/cpp/dp_type_erasure.cpp                                             *)
(***************************************************************************)

\* Number of Drawable variables of the modelled program.
NumDrawables == 2

DrawableSlots == 1..NumDrawables

\* Heap cells for Model objects: a copy assignment clones before it releases
\* the Model it replaces, so one cell more than there are Drawables.
ModelIds == 1..(NumDrawables + 1)

\* A null std::unique_ptr<Concept>.
Null == 0

\* Circle(radius) / Rectangle(width, height) / Triangle(base, height)
MakeShape(type, a, b) == [type |-> type, a |-> a, b |-> b]

ShapeValues ==
    {MakeShape("Circle", 5, 0), MakeShape("Rectangle", 3, 4)}

NoShape == MakeShape("none", 0, 0)

\* Circle::draw / Rectangle::draw / Triangle::draw: the line written.
ShapeDraw(v) ==
    CASE v.type = "Circle"    -> <<"Drawing circle with radius: ", v.a>>
      [] v.type = "Rectangle" -> <<"Drawing rectangle: ", v.a, "x", v.b>>
      [] v.type = "Triangle"  ->
             <<"Drawing triangle: base=", v.a, ", height=", v.b>>

\* An unused heap cell.
FreeCell == [kind |-> "free", object |-> NoShape, target |-> 0]

\* Model<T> for an object type T: `T object` is a value of its own.
ValueModel(v) == [kind |-> "value", object |-> v, target |-> 0]

\* Model<Drawable&>: `T object` is a reference to the Drawable variable t.
RefModel(t) == [kind |-> "ref", object |-> NoShape, target |-> t]

\* Model<Drawable&> whose referent has been destroyed.
DanglingModel == [kind |-> "dangling", object |-> NoShape, target |-> 0]

\* Model<T>::clone: make_unique<Model<T>>(object)
CloneModel(m) == m

\* No object (before construction, after destruction).
NoDrawable == [live |-> FALSE, pImpl |-> Null]

\* The unique_ptr of the source after a move.
MovedFromPointerMutKept(p) == p

MovedFromPointer(p) == Null

LiveModels == {m \in ModelIds : models[m].kind # "free"}

\* operator new: a cell not in use.
NewCell == CHOOSE m \in ModelIds :
               /\ models[m].kind = "free"
               /\ \A n \in ModelIds : models[n].kind = "free" => m <= n

\* What an undefined access (null or dangling) may do.
UBOutcomes == {"crash", "garbage"}

\* Drawable::draw -> Concept::draw -> object.draw(): where the call ends.
RECURSIVE Dispatch(_, _)
Dispatch(d, fuel) ==
    IF drawables[d].pImpl = Null THEN [end |-> "null", out |-> << >>]
    ELSE LET m == models[drawables[d].pImpl] IN
         CASE m.kind = "value" -> [end |-> "value", out |-> ShapeDraw(m.object)]
           [] m.kind = "ref" ->
                 IF fuel = 0 THEN [end |-> "cycle", out |-> << >>]
                 ELSE Dispatch(m.target, fuel - 1)
           [] OTHER -> [end |-> "dangling", out |-> << >>]

DrCall(op, slot, src, status, out, moved, replaced, liveBefore) ==
    [op |-> op, slot |-> slot, src |-> src, status |-> status, out |-> out,
     moved |-> moved, replaced |-> replaced, liveBefore |-> liveBefore]

DrInit ==
    /\ drawables = [d \in DrawableSlots |-> NoDrawable]
    /\ models = [m \in ModelIds |-> FreeCell]
    /\ drCrashed = FALSE
    /\ drCall = DrCall("none", 0, 0, "returned", << >>, Null, Null, {})

\* The process dies in an operation.
DrFault(op, d, s) ==
    /\ drCrashed' = TRUE
    /\ drCall' = DrCall(op, d, s, "crash", << >>, Null, Null, LiveModels)
    /\ UNCHANGED <<drawables, models>>

\* Drawable d = Circle(5.0);   template constructor, T = Circle
DrWrap(d, v) ==
    /\ ~drCrashed
    /\ ~drawables[d].live
    /\ drawables' = [drawables EXCEPT ![d] = [live |-> TRUE, pImpl |-> NewCell]]
    /\ models' = [models EXCEPT ![NewCell] = ValueModel(v)]
    /\ drCall' = DrCall("wrap", d, 0, "returned", << >>, Null, Null,
                        LiveModels)
    /\ UNCHANGED drCrashed

\* Drawable d = s;   s a non-const Drawable: overload resolution selects the
\* template constructor with T = Drawable&, which builds a Model<Drawable&>.
DrCopyFromLvalue(d, s) ==
    /\ ~drCrashed
    /\ ~drawables[d].live
    /\ drawables[s].live
    /\ drawables' = [drawables EXCEPT ![d] = [live |-> TRUE, pImpl |-> NewCell]]
    /\ models' = [models EXCEPT ![NewCell] = RefModel(s)]
    /\ drCall' = DrCall("copyFromLvalue", d, s, "returned", << >>, Null, Null,
                        LiveModels)
    /\ UNCHANGED drCrashed

\* Drawable d = s;   s a const Drawable: Drawable(const Drawable&)
DrCopyFromConst(d, s, ub) ==
    /\ ~drCrashed
    /\ ~drawables[d].live
    /\ drawables[s].live
    /\ IF drawables[s].pImpl = Null
       THEN IF ub = "crash"
            THEN DrFault("copyFromConst", d, s)
            ELSE /\ drawables' = [drawables EXCEPT
                                     ![d] = [live |-> TRUE, pImpl |-> Null]]
                 /\ drCall' = DrCall("copyFromConst", d, s, "garbage", << >>,
                                     Null, Null, LiveModels)
                 /\ UNCHANGED <<models, drCrashed>>
       ELSE /\ drawables' = [drawables EXCEPT
                                ![d] = [live |-> TRUE, pImpl |-> NewCell]]
            /\ models' = [models EXCEPT
                             ![NewCell] = CloneModel(models[drawables[s].pImpl])]
            /\ drCall' = DrCall("copyFromConst", d, s, "returned", << >>,
                                Null, Null, LiveModels)
            /\ UNCHANGED drCrashed

\* d = s;   Drawable::operator=(const Drawable&)
DrCopyAssign(d, s, ub) ==
    /\ ~drCrashed
    /\ drawables[d].live
    /\ drawables[s].live
    /\ IF drawables[s].pImpl = Null
       THEN IF ub = "crash"
            THEN DrFault("copyAssign", d, s)
            ELSE /\ drCall' = DrCall("copyAssign", d, s, "garbage", << >>,
                                     Null, drawables[d].pImpl, LiveModels)
                 /\ UNCHANGED <<drawables, models, drCrashed>>
       ELSE LET old == drawables[d].pImpl
                new == NewCell
                put == [models EXCEPT
                           ![new] = CloneModel(models[drawables[s].pImpl])]
            IN /\ drawables' = [drawables EXCEPT ![d].pImpl = new]
               /\ models' = IF old = Null THEN put
                            ELSE [put EXCEPT ![old] = FreeCell]
               /\ drCall' = DrCall("copyAssign", d, s, "returned", << >>,
                                   Null, old, LiveModels)
               /\ UNCHANGED drCrashed

\* Drawable d = std::move(s);   Drawable(Drawable&&) = default
DrMoveConstruct(d, s) ==
    /\ ~drCrashed
    /\ ~drawables[d].live
    /\ drawables[s].live
    /\ drawables' = [drawables EXCEPT
                        ![d] = [live |-> TRUE, pImpl |-> drawables[s].pImpl],
                        ![s].pImpl = MovedFromPointer(drawables[s].pImpl)]
    /\ drCall' = DrCall("moveConstruct", d, s, "returned", << >>,
                        drawables[s].pImpl, Null, LiveModels)
    /\ UNCHANGED <<models, drCrashed>>

\* d = std::move(s);   Drawable& operator=(Drawable&&) = default, which is
\* pImpl.reset(other.pImpl.release())
DrMoveAssign(d, s) ==
    /\ ~drCrashed
    /\ drawables[d].live
    /\ drawables[s].live
    /\ LET old == drawables[d].pImpl
           taken == drawables[s].pImpl
           released == [drawables EXCEPT ![s].pImpl = MovedFromPointer(taken)]
       IN /\ drawables' = [released EXCEPT ![d].pImpl = taken]
          /\ models' = IF d = s \/ old = Null THEN models
                       ELSE [models EXCEPT ![old] = FreeCell]
          /\ drCall' = DrCall("moveAssign", d, s, "returned", << >>, taken,
                              IF d = s THEN Null ELSE old, LiveModels)
    /\ UNCHANGED drCrashed

\* d goes out of scope: ~Drawable releases its Model; every Model<Drawable&>
\* that refers to d is left with a dangling reference.
DrDestroy(d) ==
    /\ ~drCrashed
    /\ drawables[d].live
    /\ drawables' = [drawables EXCEPT ![d] = NoDrawable]
    /\ models' = [m \in ModelIds |->
                    IF m = drawables[d].pImpl THEN FreeCell
                    ELSE IF models[m].kind = "ref" /\ models[m].target = d
                         THEN DanglingModel
                         ELSE models[m]]
    /\ drCall' = DrCall("destroy", d, 0, "returned", << >>, Null,
                        drawables[d].pImpl, LiveModels)
    /\ UNCHANGED drCrashed

\* d.draw();
DrDraw(d, ub) ==
    /\ ~drCrashed
    /\ drawables[d].live
    /\ LET r == Dispatch(d, NumDrawables) IN
       CASE r.end = "value" ->
               /\ drCall' = DrCall("draw", d, 0, "returned", r.out, Null,
                                   Null, LiveModels)
               /\ UNCHANGED <<drawables, models, drCrashed>>
         [] r.end = "cycle" -> DrFault("draw", d, 0)
         [] OTHER ->
               IF ub = "crash" THEN DrFault("draw", d, 0)
               ELSE /\ drCall' = DrCall("draw", d, 0, "garbage", << >>, Null,
                                        Null, LiveModels)
                    /\ UNCHANGED <<drawables, models, drCrashed>>

(***************************************************************************)
(* ========================  MACRO COMMAND  ============================== *)
(* src/pattern/dp_command_pattern_optimized.cpp                            *)
(***************************************************************************)

\* Largest number of commands added to the macro.
MaxMacro == 3

\* The commands the program adds to a macro (kind, value).
MacroChoices ==
    {<<"Add", 1>>, <<"Multiply", 2>>, <<"Subtract", 2>>, <<"Divide", 2>>}

\* MacroCommand::execute(): the loop from position i on, over commands cs and
\* calculator result r.  Yields the commands and the result afterwards, the
\* positions run, and whether an arithmetic step trapped.
RECURSIVE MacroExecuteLoop(_, _, _, _, _)
MacroExecuteLoop(cs, i, r, b, trace) ==
    IF i > Len(cs) THEN [cmds |-> cs, val |-> r, trap |-> FALSE, trace |-> trace]
    ELSE LET ex == CommandExecute(cs[i], r, b)
         IN IF ex.out.trap
            THEN [cmds |-> cs, val |-> r, trap |-> TRUE, trace |-> trace]
            ELSE MacroExecuteLoop([cs EXCEPT ![i] = ex.cmd], i + 1,
                                  ex.out.val, b, Append(trace, i))

\* MacroCommand::undo(): the loop over rbegin()..rend(), from position i down.
RECURSIVE MacroUndoLoopMutForward(_, _, _, _)
MacroUndoLoopMutForward(cs, i, r, trace) ==
    IF i = 0 THEN [val |-> r, trace |-> trace]
    ELSE LET k == Len(cs) + 1 - i
         IN MacroUndoLoopMutForward(cs, i - 1, CommandUndo(cs[k], r),
                                    Append(trace, k))

RECURSIVE MacroUndoLoop(_, _, _, _)
MacroUndoLoop(cs, i, r, trace) ==
    IF i = 0 THEN [val |-> r, trace |-> trace]
    ELSE MacroUndoLoop(cs, i - 1, CommandUndo(cs[i], r), Append(trace, i))

MacroInit ==
    /\ macroCalc = 0
    /\ commands_ = << >>
    /\ macroCrashed = FALSE
    /\ macroOp = "none"
    /\ macroBefore = 0
    /\ macroTrace = << >>

\* macro->addCommand(CommandFactory::create<Kind>Command(macroCalc, v))
MacroAddCommand(kind, v) ==
    /\ ~macroCrashed
    /\ Len(commands_) < MaxMacro
    /\ commands_' = Append(commands_, NewCommand(kind, v))
    /\ macroOp' = "add"
    /\ macroTrace' = << >>
    /\ UNCHANGED <<macroCalc, macroCrashed, macroBefore>>

\* macro->execute()
MacroExecute ==
    /\ ~macroCrashed
    /\ LET run == MacroExecuteLoop(commands_, 1, macroCalc, build, << >>)
       IN IF run.trap
          THEN /\ macroCrashed' = TRUE
               /\ UNCHANGED <<macroCalc, commands_, macroOp, macroBefore,
                              macroTrace>>
          ELSE /\ macroCalc' = run.val
               /\ commands_' = run.cmds
               /\ macroOp' = "execute"
               /\ macroBefore' = macroCalc
               /\ macroTrace' = run.trace
               /\ UNCHANGED macroCrashed

\* macro->undo()
MacroUndo ==
    /\ ~macroCrashed
    /\ LET run == MacroUndoLoop(commands_, Len(commands_), macroCalc, << >>)
       IN /\ macroCalc' = run.val
          /\ macroTrace' = run.trace
    /\ macroOp' = "undo"
    /\ UNCHANGED <<commands_, macroCrashed, macroBefore>>

(***************************************************************************)
(* ========================  REMOTE CONTROL  ============================= *)
(* src/dp_command_pattern.cpp                                              *)
(***************************************************************************)

\* Number of on/off presses the history remembers.
MaxPushes == 2

\* RemoteControl::RemoteControl(): seven slots.
RcSlots == 0..6

\* The volume StereoOnWithCDCommand sets.
CDVolume == 11

\* A null std::shared_ptr<Command>.
NoLast == "null"

\* main: the commands installed by setCommand, per slot.
onCommands ==
    [i \in RcSlots |->
        CASE i = 0 -> "livingRoomLightOn"
          [] i = 1 -> "kitchenLightOn"
          [] i = 2 -> "garageDoorOpen"
          [] i = 3 -> "stereoOnWithCD"
          [] i = 4 -> "partyOnMacro"
          [] OTHER -> "NoCommand"]

offCommands ==
    [i \in RcSlots |->
        CASE i = 0 -> "livingRoomLightOff"
          [] i = 1 -> "kitchenLightOff"
          [] i = 2 -> "garageDoorClose"
          [] i = 4 -> "partyOffMacro"
          [] OTHER -> "NoCommand"]

\* main: the command lists of the two macros.
partyOn == <<"livingRoomLightOn", "kitchenLightOn", "stereoOnWithCD">>

partyOff == <<"livingRoomLightOff", "kitchenLightOff", "stereoOff">>

\* execute() of the simple commands, applied to the receivers dv.
SimpleExecute(c, dv) ==
    CASE c = "livingRoomLightOn"  -> [dv EXCEPT !.livingRoomLight = TRUE]
      [] c = "livingRoomLightOff" -> [dv EXCEPT !.livingRoomLight = FALSE]
      [] c = "kitchenLightOn"     -> [dv EXCEPT !.kitchenLight = TRUE]
      [] c = "kitchenLightOff"    -> [dv EXCEPT !.kitchenLight = FALSE]
      [] c = "garageDoorOpen"     -> [dv EXCEPT !.garageDoor = TRUE]
      [] c = "garageDoorClose"    -> [dv EXCEPT !.garageDoor = FALSE]
      [] c = "stereoOnWithCD"     ->
             [dv EXCEPT !.stereo = TRUE, !.volume = CDVolume]
      [] c = "stereoOff"          -> [dv EXCEPT !.stereo = FALSE]
      [] OTHER                    -> dv

\* undo() of the simple commands.
SimpleUndo(c, dv) ==
    CASE c = "livingRoomLightOn"  -> [dv EXCEPT !.livingRoomLight = FALSE]
      [] c = "livingRoomLightOff" -> [dv EXCEPT !.livingRoomLight = TRUE]
      [] c = "kitchenLightOn"     -> [dv EXCEPT !.kitchenLight = FALSE]
      [] c = "kitchenLightOff"    -> [dv EXCEPT !.kitchenLight = TRUE]
      [] c = "garageDoorOpen"     -> [dv EXCEPT !.garageDoor = FALSE]
      [] c = "garageDoorClose"    -> [dv EXCEPT !.garageDoor = TRUE]
      [] c = "stereoOnWithCD"     -> [dv EXCEPT !.stereo = FALSE]
      [] c = "stereoOff"          -> [dv EXCEPT !.stereo = TRUE]
      [] OTHER                    -> dv

\* MacroCommand::execute of dp_command_pattern.cpp, from position i on.
RECURSIVE PartyExecuteLoop(_, _, _)
PartyExecuteLoop(cs, i, dv) ==
    IF i > Len(cs) THEN dv
    ELSE PartyExecuteLoop(cs, i + 1, SimpleExecute(cs[i], dv))

\* MacroCommand::undo of dp_command_pattern.cpp, from position i down.
RECURSIVE PartyUndoLoop(_, _, _)
PartyUndoLoop(cs, i, dv) ==
    IF i = 0 THEN dv ELSE PartyUndoLoop(cs, i - 1, SimpleUndo(cs[i], dv))

\* Command::execute, by dynamic type.
RcExecute(c, dv) ==
    CASE c = "partyOnMacro"  -> PartyExecuteLoop(partyOn, 1, dv)
      [] c = "partyOffMacro" -> PartyExecuteLoop(partyOff, 1, dv)
      [] OTHER               -> SimpleExecute(c, dv)

\* Command::undo, by dynamic type.
RcUndo(c, dv) ==
    CASE c = "partyOnMacro"  -> PartyUndoLoop(partyOn, Len(partyOn), dv)
      [] c = "partyOffMacro" -> PartyUndoLoop(partyOff, Len(partyOff), dv)
      [] OTHER               -> SimpleUndo(c, dv)

\* The history of presses with one more command, the oldest dropped.
Remember(hist, c) ==
    IF Len(hist) < MaxPushes THEN Append(hist, c)
    ELSE Append(SubSeq(hist, 2, Len(hist)), c)

RcInit ==
    /\ devices = [livingRoomLight |-> FALSE, kitchenLight |-> FALSE,
                  garageDoor |-> FALSE, stereo |-> FALSE, volume |-> 0]
    /\ lastCommand = NoLast
    /\ rcOp = "none"
    /\ rcPushed = << >>
    /\ rcUndos = 0
    /\ rcUndone = NoLast

\* RemoteControl::onButtonWasPushed(slot)
OnButtonWasPushed(slot) ==
    /\ devices' = RcExecute(onCommands[slot], devices)
    /\ lastCommand' = onCommands[slot]
    /\ rcOp' = "on"
    /\ rcPushed' = Remember(rcPushed, onCommands[slot])
    /\ rcUndos' = 0
    /\ rcUndone' = NoLast

\* RemoteControl::offButtonWasPushed(slot)
OffButtonWasPushed(slot) ==
    /\ devices' = RcExecute(offCommands[slot], devices)
    /\ lastCommand' = offCommands[slot]
    /\ rcOp' = "off"
    /\ rcPushed' = Remember(rcPushed, offCommands[slot])
    /\ rcUndos' = 0
    /\ rcUndone' = NoLast

\* RemoteControl::undoButtonWasPushed()
UndoButtonWasPushed ==
    /\ devices' = IF lastCommand # NoLast THEN RcUndo(lastCommand, devices)
                                          ELSE devices
    /\ rcUndone' = lastCommand
    /\ rcOp' = "undo"
    /\ rcUndos' = IF rcUndos < MaxPushes THEN rcUndos + 1 ELSE rcUndos
    /\ UNCHANGED <<lastCommand, rcPushed>>

(***************************************************************************)
(* =====================  DATABASE CONNECTION  =========================== *)
(* src/pattern/dp_raii_optimized.cpp (movable), src/dp_raii.cpp (simple)   *)
(***************************************************************************)

\* Number of DatabaseConnection variables of the modelled program.
NumConns == 2

\* Largest number of connections opened in a run.
MaxOpened == 3

DbSlots == 1..NumConns

ConnIds == 1..MaxOpened

\* The two DatabaseConnection classes: the one of dp_raii_optimized.cpp has
\* move operations and a private disconnect(); the one of dp_raii.cpp has a
\* public disconnect().
DbClasses == {"movable", "simple"}

ConnectionStrings == {"localhost:5432/mydb"}

NoConn == 0

NoDbObject ==
    [live |-> FALSE, class |-> "none", connectionString_ |-> "",
     connected_ |-> FALSE, conn |-> NoConn]

\* The next unused connection.
NextConn == CHOOSE c \in ConnIds :
                /\ ledger[c] = "unused"
                /\ \A k \in ConnIds : ledger[k] = "unused" => c <= k

\* DatabaseConnection::disconnect() on object o: the object afterwards.
DisconnectObject(o) ==
    IF o.connected_ THEN [o EXCEPT !.connected_ = FALSE] ELSE o

\* DatabaseConnection::disconnect() on object o: the ledger afterwards.
DisconnectLedger(o, lg) ==
    IF o.connected_ /\ o.conn # NoConn
    THEN [lg EXCEPT ![o.conn] = IF lg[o.conn] = "open" THEN "closed"
                                                       ELSE "twice"]
    ELSE lg

\* The source of a move: other.connected_ = false, its string moved out.
MovedFromConnectionMutStillConnected(o) == [o EXCEPT !.connectionString_ = ""]

MovedFromConnection(o) ==
    [o EXCEPT !.connectionString_ = "", !.connected_ = FALSE]

DbCall(op, slot, src, did, was, released) ==
    [op |-> op, slot |-> slot, src |-> src, did |-> did, was |-> was,
     released |-> released]

DbInit ==
    /\ dbObjects = [d \in DbSlots |-> NoDbObject]
    /\ ledger = [c \in ConnIds |-> "unused"]
    /\ dbCall = DbCall("none", 0, 0, FALSE, FALSE, NoConn)

\* DatabaseConnection d(connectionString);   the constructor calls connect()
DbConstruct(d, class, str) ==
    /\ ~dbObjects[d].live
    /\ \E c \in ConnIds : ledger[c] = "unused"
    /\ dbObjects' = [dbObjects EXCEPT
                        ![d] = [live |-> TRUE, class |-> class,
                                connectionString_ |-> str,
                                connected_ |-> TRUE, conn |-> NextConn]]
    /\ ledger' = [ledger EXCEPT ![NextConn] = "open"]
    /\ dbCall' = DbCall("construct", d, 0, FALSE, FALSE, NoConn)

\* ~DatabaseConnection(): disconnect()
DbDestroy(d) ==
    /\ dbObjects[d].live
    /\ ledger' = DisconnectLedger(dbObjects[d], ledger)
    /\ dbObjects' = [dbObjects EXCEPT ![d] = NoDbObject]
    /\ dbCall' = DbCall("destroy", d, 0, dbObjects[d].connected_,
                        dbObjects[d].connected_, dbObjects[d].conn)

\* DatabaseConnection d(std::move(s));   dp_raii_optimized.cpp
DbMoveConstruct(d, s) ==
    /\ ~dbObjects[d].live
    /\ dbObjects[s].live
    /\ dbObjects[s].class = "movable"
    /\ dbObjects' = [dbObjects EXCEPT
                        ![d] = dbObjects[s],
                        ![s] = MovedFromConnection(dbObjects[s])]
    /\ dbCall' = DbCall("moveConstruct", d, s, FALSE, FALSE, NoConn)
    /\ UNCHANGED ledger

\* d = std::move(s);   dp_raii_optimized.cpp
DbMoveAssign(d, s) ==
    /\ dbObjects[d].live
    /\ dbObjects[s].live
    /\ dbObjects[d].class = "movable"
    /\ dbObjects[s].class = "movable"
    /\ IF d # s
       THEN /\ ledger' = DisconnectLedger(dbObjects[d], ledger)
            /\ dbObjects' = [dbObjects EXCEPT
                                ![d] = dbObjects[s],
                                ![s] = MovedFromConnection(dbObjects[s])]
            /\ dbCall' = DbCall("moveAssign", d, s, dbObjects[d].connected_,
                                dbObjects[d].connected_, dbObjects[d].conn)
       ELSE /\ dbCall' = DbCall("moveAssign", d, s, FALSE,
                                dbObjects[d].connected_, NoConn)
            /\ UNCHANGED <<dbObjects, ledger>>

\* d.disconnect();   public in dp_raii.cpp only
DbDisconnect(d) ==
    /\ dbObjects[d].live
    /\ dbObjects[d].class = "simple"
    /\ ledger' = DisconnectLedger(dbObjects[d], ledger)
    /\ dbObjects' = [dbObjects EXCEPT ![d] = DisconnectObject(dbObjects[d])]
    /\ dbCall' = DbCall("disconnect", d, 0, dbObjects[d].connected_,
                        dbObjects[d].connected_, dbObjects[d].conn)

\* d.executeQuery(query): throws (movable) or does nothing (simple) when the
\* object is not connected; no state changes.
DbExecuteQuery(d) ==
    /\ dbObjects[d].live
    /\ dbCall' = DbCall(IF dbObjects[d].connected_ THEN "query"
                        ELSE IF dbObjects[d].class = "movable"
                             THEN "queryThrew" ELSE "queryIgnored",
                        d, 0, FALSE, dbObjects[d].connected_, NoConn)
    /\ UNCHANGED <<dbObjects, ledger>>

(***************************************************************************)
(* ====================  RULE OF THREE / FIVE  =========================== *)
(* src/pattern/dp_rule_of_three.cpp                                        *)
(***************************************************************************)

\* Number of resource manager variables of the modelled program.
NumManagers == 2

ManagerSlots == 1..NumManagers

\* Heap cells for arrays: every manager owns at most one.
BufferIds == 1..NumManagers

ManagerClasses == {"Good", "Better"}

\* Sizes passed to the constructor, and values passed to setValue.
BufSizes == {1, 2}

CellValues == {1, 2}

\* Indices passed to setValue / getValue (the second one is out of range).
CellIndices == {0, 2}

\* The content of an int that new int[size] left uninitialised.
Indet == 0 - 1

\* data = nullptr
NullData == 0

NoManager ==
    [live |-> FALSE, class |-> "none", data |-> NullData, size |-> 0,
     from |-> 0]

FreeBuffer == [alive |-> FALSE, cells |-> << >>]

\* new int[n]: an array of n uninitialised ints.
NewArray(n) == [alive |-> TRUE, cells |-> [i \in 1..n |-> Indet]]

\* new[]: a heap cell not in use.
NewBuffer(heap) == CHOOSE b \in BufferIds :
                      /\ ~heap[b].alive
                      /\ \A k \in BufferIds : ~heap[k].alive => b <= k

\* delete[] p: the heap afterwards.
DeleteArray(heap, p) ==
    IF p = NullData THEN heap ELSE [heap EXCEPT ![p] = FreeBuffer]

\* delete[] p is applied to something that is not a live array.
BadDelete(heap, p) == p # NullData /\ ~heap[p].alive

\* for (i = 0; i < size; ++i) data[i] = other.data[i];
CopyCells(cells, n) == [i \in 1..n |-> cells[i]]

\* The array a copy constructor or copy assignment gives to the copy: the
\* freshly allocated one.
CopyDataMutShallow(fresh, otherData) == otherData

CopyData(fresh, otherData) == fresh

\* The cells an object reaches through data (none through a null pointer).
Contents(m) == IF m.data = NullData THEN << >> ELSE buffers[m.data].cells

RmCall(op, slot, src, ret) ==
    [op |-> op, slot |-> slot, src |-> src, ret |-> ret]

\* main keeps managers of one class in a scope: a new manager of this class
\* can join the live ones.
SameScope(class) ==
    \A e \in ManagerSlots : managers[e].live => managers[e].class = class

RmInit ==
    /\ managers = [d \in ManagerSlots |-> NoManager]
    /\ buffers = [b \in BufferIds |-> FreeBuffer]
    /\ rmFault = FALSE
    /\ rmCall = RmCall("none", 0, 0, 0)

\* GoodResourceManager d(n);  /  BetterResourceManager d(n);
RmConstruct(d, class, n) ==
    /\ ~rmFault
    /\ ~managers[d].live
    /\ SameScope(class)
    /\ LET b == NewBuffer(buffers)
       IN /\ buffers' = [buffers EXCEPT ![b] = NewArray(n)]
          /\ managers' = [managers EXCEPT
                             ![d] = [live |-> TRUE, class |-> class,
                                     data |-> b, size |-> n, from |-> 0]]
    /\ rmCall' = RmCall("construct", d, 0, 0)
    /\ UNCHANGED rmFault

\* Manager d = s;   copy constructor
RmCopyConstruct(d, s) ==
    /\ ~rmFault
    /\ ~managers[d].live
    /\ managers[s].live
    /\ LET other == managers[s]
           b == NewBuffer(buffers)
       IN /\ buffers' = [buffers EXCEPT
                            ![b] = [alive |-> TRUE,
                                    cells |-> CopyCells(Contents(other),
                                                        other.size)]]
          /\ managers' = [managers EXCEPT
                             ![d] = [live |-> TRUE, class |-> other.class,
                                     data |-> CopyData(b, other.data),
                                     size |-> other.size, from |-> s]]
    /\ rmCall' = RmCall("copyConstruct", d, s, 0)
    /\ UNCHANGED rmFault

\* d = s;   copy assignment
RmCopyAssign(d, s) ==
    /\ ~rmFault
    /\ managers[d].live
    /\ managers[s].live
    /\ managers[d].class = managers[s].class
    /\ IF d # s
       THEN LET other == managers[s]
                freed == DeleteArray(buffers, managers[d].data)
                b == NewBuffer(freed)
            IN /\ rmFault' = BadDelete(buffers, managers[d].data)
               /\ buffers' = [freed EXCEPT
                                 ![b] = [alive |-> TRUE,
                                         cells |-> CopyCells(Contents(other),
                                                             other.size)]]
               /\ managers' = [managers EXCEPT
                                  ![d].data = CopyData(b, other.data),
                                  ![d].size = other.size,
                                  ![d].from = s]
       ELSE UNCHANGED <<managers, buffers, rmFault>>
    /\ rmCall' = RmCall("copyAssign", d, s, 0)

\* BetterResourceManager d = std::move(s);   move constructor
RmMoveConstruct(d, s) ==
    /\ ~rmFault
    /\ ~managers[d].live
    /\ managers[s].live
    /\ managers[s].class = "Better"
    /\ managers' = [managers EXCEPT
                       ![d] = [managers[s] EXCEPT !.from = 0],
                       ![s].data = NullData,
                       ![s].size = 0]
    /\ rmCall' = RmCall("moveConstruct", d, s, 0)
    /\ UNCHANGED <<buffers, rmFault>>

\* d = std::move(s);   BetterResourceManager move assignment
RmMoveAssign(d, s) ==
    /\ ~rmFault
    /\ managers[d].live
    /\ managers[s].live
    /\ managers[d].class = "Better"
    /\ managers[s].class = "Better"
    /\ IF d # s
       THEN /\ rmFault' = BadDelete(buffers, managers[d].data)
            /\ buffers' = DeleteArray(buffers, managers[d].data)
            /\ managers' = [managers EXCEPT
                               ![d].data = managers[s].data,
                               ![d].size = managers[s].size,
                               ![d].from = 0,
                               ![s].data = NullData,
                               ![s].size = 0]
       ELSE UNCHANGED <<managers, buffers, rmFault>>
    /\ rmCall' = RmCall("moveAssign", d, s, 0)

\* the manager goes out of scope: delete[] data
RmDestroy(d) ==
    /\ ~rmFault
    /\ managers[d].live
    /\ rmFault' = BadDelete(buffers, managers[d].data)
    /\ buffers' = DeleteArray(buffers, managers[d].data)
    /\ managers' = [managers EXCEPT ![d] = NoManager]
    /\ rmCall' = RmCall("destroy", d, 0, 0)

\* d.setValue(index, value)
RmSetValue(d, index, value) ==
    /\ ~rmFault
    /\ managers[d].live
    /\ buffers' = IF index < managers[d].size
                  THEN [buffers EXCEPT
                           ![managers[d].data].cells[index + 1] = value]
                  ELSE buffers
    /\ rmCall' = RmCall("setValue", d, 0, 0)
    /\ UNCHANGED <<managers, rmFault>>

\* d.getValue(index): an uninitialised int reads as some value (junk).
RmGetValue(d, index, junk) ==
    /\ ~rmFault
    /\ managers[d].live
    /\ rmCall' = RmCall("getValue", d, 0,
                        IF index < managers[d].size
                        THEN IF Contents(managers[d])[index + 1] = Indet
                             THEN junk
                             ELSE Contents(managers[d])[index + 1]
                        ELSE 0)
    /\ UNCHANGED <<managers, buffers, rmFault>>

(***************************************************************************)
(* =======================  USER CONTROLLER  ============================= *)
(* src/clean_architecture_example.cpp                                      *)
(***************************************************************************)

\* Largest number of users created.
MaxUsers == 2

\* Strings are sequences of characters.
\* Names passed to createUser: "", "Al", "Bo".
UserNames == {<< >>, <<"A", "l">>, <<"B", "o">>}

\* Emails passed to createUser: "", "invalid-email" (no '@'), and two
\* addresses with an '@'.
UserEmails == {<< >>, <<"i", "n", "v">>, <<"a", "@", "x">>, <<"@">>}

\* Ids passed to getUser (the last one is never issued).
UserIds == {1, 2, 999}

\* std::string::empty
Empty(str) == Len(str) = 0

\* email.find('@') == std::string::npos
FindAtIsNpos(email) == \A i \in 1..Len(email) : email[i] # "@"

\* CreateUserUseCase::execute, the validation: the message of the exception
\* thrown, or "" when the arguments pass.
ValidationErrorMutNoAtCheck(name, email) ==
    IF Empty(name) THEN "Name cannot be empty"
    ELSE IF Empty(email) THEN "Invalid email format"
    ELSE ""

ValidationError(name, email) ==
    IF Empty(name) THEN "Name cannot be empty"
    ELSE IF Empty(email) \/ FindAtIsNpos(email) THEN "Invalid email format"
    ELSE ""

\* User(id, name, email)
MakeUser(id, name, email) == [id_ |-> id, name_ |-> name, email_ |-> email]

\* InMemoryUserRepository::save
RECURSIVE RepoSave(_, _, _)
RepoSave(users, i, user) ==
    IF i > Len(users) THEN Append(users, user)
    ELSE IF users[i].id_ = user.id_
         THEN [users EXCEPT ![i].name_ = user.name_,
                            ![i].email_ = user.email_]
         ELSE RepoSave(users, i + 1, user)

\* InMemoryUserRepository::findAll: copies of the users, in stored order.
RepoFindAll(users) == [i \in 1..Len(users) |-> users[i]]

\* InMemoryUserRepository::findById: the users found (none or the first).
RECURSIVE RepoFindById(_, _, _)
RepoFindById(users, i, id) ==
    IF i > Len(users) THEN << >>
    ELSE IF users[i].id_ = id THEN <<users[i]>>
         ELSE RepoFindById(users, i + 1, id)

UcCall(op, name, email, kind, shown) ==
    [op |-> op, name |-> name, email |-> email, kind |-> kind,
     shown |-> shown]

UcInit ==
    /\ users_ = << >>
    /\ nextId = 1
    /\ ucCall = UcCall("none", << >>, << >>, "none", << >>)

\* UserController::createUser(name, email)
CreateUser(name, email) ==
    LET error == ValidationError(name, email) IN
    IF error # ""
    THEN /\ ucCall' = UcCall("createUser", name, email, "error", <<error>>)
         /\ UNCHANGED <<users_, nextId>>
    ELSE /\ nextId <= MaxUsers
         /\ LET newUser == MakeUser(nextId, name, email)
            IN /\ users_' = RepoSave(users_, 1, newUser)
               /\ ucCall' = UcCall("createUser", name, email, "user",
                                   <<newUser>>)
         /\ nextId' = nextId + 1

\* UserController::getUser(id)
GetUser(id) ==
    /\ LET found == RepoFindById(users_, 1, id)
       IN ucCall' = IF found = << >>
                    THEN UcCall("getUser", << >>, << >>, "error",
                                <<"User not found">>)
                    ELSE UcCall("getUser", << >>, << >>, "user", found)
    /\ UNCHANGED <<users_, nextId>>

\* UserController::listUsers()
ListUsers ==
    /\ ucCall' = UcCall("listUsers", << >>, << >>, "users",
                        RepoFindAll(users_))
    /\ UNCHANGED <<users_, nextId>>

(***************************************************************************)
(* =====================  CRTP OBJECT COUNTING  ========================== *)
(* src/dp_crtp.cpp (Base<Derived>), src/pattern/dp_crtp_optimized.cpp      *)
(* (ObjectCounter<T>)                                                      *)
(***************************************************************************)

\* Number of object slots.
NumCounted == 3

\* Width of size_t, reduced.
SizeBits == 3

CrSlots == 1..NumCounted

\* The counted types: Derived1 and Derived2 derive from Base<Derived>,
\* ModernVector derives from ObjectCounter<ModernVector>.
CountedTypes == {"Derived1", "Derived2", "ModernVector"}

\* The types whose counter is ObjectCounter<T>.
UsesObjectCounter(type) == type = "ModernVector"

\* ++count on a size_t
Increment(n) == (n + 1) % Pow2(SizeBits)

\* --count on a size_t
Decrement(n) == (n + Pow2(SizeBits) - 1) % Pow2(SizeBits)

\* What copy or move construction does to the counter.  ObjectCounter
\* declares both constructors and each increments count_.  Base<Derived>
\* declares neither: the implicit copy constructor leaves count alone, and
\* a move falls back to it because the destructor is user-declared.
CopyCount(type, n) ==
    IF UsesObjectCounter(type) THEN Increment(n) ELSE n

\* getCount()
GetCount(type) == counts[type]

CrCall(op, type, ret) == [op |-> op, type |-> type, ret |-> ret]

CrInit ==
    /\ crObjects = [s \in CrSlots |-> "none"]
    /\ counts = [t \in CountedTypes |-> 0]
    /\ crCall = CrCall("none", "none", 0)

\* T obj;  (Base() / ObjectCounter())
CrConstruct(slot, type) ==
    /\ crObjects[slot] = "none"
    /\ crObjects' = [crObjects EXCEPT ![slot] = type]
    /\ counts' = [counts EXCEPT ![type] = Increment(@)]
    /\ crCall' = CrCall("construct", type, 0)

\* T obj(src);
CrCopyConstruct(slot, src) ==
    /\ crObjects[slot] = "none"
    /\ crObjects[src] # "none"
    /\ crObjects' = [crObjects EXCEPT ![slot] = crObjects[src]]
    /\ counts' = [counts EXCEPT
                    ![crObjects[src]] = CopyCount(crObjects[src], @)]
    /\ crCall' = CrCall("copy", crObjects[src], 0)

\* T obj(std::move(src));  the source stays alive
CrMoveConstruct(slot, src) ==
    /\ crObjects[slot] = "none"
    /\ crObjects[src] # "none"
    /\ crObjects' = [crObjects EXCEPT ![slot] = crObjects[src]]
    /\ counts' = [counts EXCEPT
                    ![crObjects[src]] = CopyCount(crObjects[src], @)]
    /\ crCall' = CrCall("move", crObjects[src], 0)

\* dst = src;  (implicit or defaulted assignment: the counter is static)
CrAssign(dst, src) ==
    /\ crObjects[dst] # "none"
    /\ crObjects[dst] = crObjects[src]
    /\ crCall' = CrCall("assign", crObjects[dst], 0)
    /\ UNCHANGED <<crObjects, counts>>

\* ~Base() / ~ObjectCounter()
CrDestroy(slot) ==
    /\ crObjects[slot] # "none"
    /\ crObjects' = [crObjects EXCEPT ![slot] = "none"]
    /\ counts' = [counts EXCEPT ![crObjects[slot]] = Decrement(@)]
    /\ crCall' = CrCall("destroy", crObjects[slot], 0)

\* T::getCount()
CrGetCount(type) ==
    /\ crCall' = CrCall("getCount", type, GetCount(type))
    /\ UNCHANGED <<crObjects, counts>>

(***************************************************************************)
(* ================  THREAD-SAFE RESOURCE MANAGER  ======================= *)
(* src/pattern/dp_raii_optimized.cpp                                       *)
(***************************************************************************)

\* Number of threads calling the manager.
NumThreads == 2

Threads == 1..NumThreads

\* An unlocked std::mutex.
NoOwner == 0

\* Resource names and data used by the callers.
ResourceNames == {"config", "cache"}
ResourceData == {"v1", "v2"}

\* A name that is not in the map.
Absent == "absent"

TsOps == {"addResource", "getResource", "removeResource"}

\* A thread's position: "idle" (outside any call), "entered" (called, the
\* ScopedLock constructor has not yet returned from mutex_.lock()),
\* "locked" (lock held, body not yet run), "finished" (body run, the
\* ScopedLock destructor not yet run).
ThreadAt(pc, op, name, data, ret) ==
    [pc |-> pc, op |-> op, name |-> name, data |-> data, ret |-> ret]

IdleThread == ThreadAt("idle", "none", "", "", "")

\* The body of each operation on the map: the map afterwards.
BodyMap(op, name, data, map) ==
    IF op = "addResource" THEN [map EXCEPT ![name] = data]
    ELSE IF op = "removeResource" THEN [map EXCEPT ![name] = Absent]
    ELSE map

\* The body of each operation: the value returned (getResource returns the
\* data found, or "" when the name is not in the map).
BodyReturn(op, name, map) ==
    IF op = "getResource" /\ map[name] # Absent THEN map[name] ELSE ""

TsInit ==
    /\ resources_ = [n \in ResourceNames |-> Absent]
    /\ mutex_ = NoOwner
    /\ threads = [t \in Threads |-> IdleThread]
    /\ tsCall = [thread |-> 0, op |-> "none", ret |-> ""]

\* A thread calls addResource / getResource / removeResource.
TsEnter(t, op, name, data) ==
    /\ threads[t].pc = "idle"
    /\ op = "addResource" \/ data = ""
    /\ threads' = [threads EXCEPT ![t] = ThreadAt("entered", op, name, data, "")]
    /\ UNCHANGED <<resources_, mutex_, tsCall>>

\* ScopedLock::ScopedLock: mutex_.lock() returns once the mutex is free.
ScopedLockLock(t) ==
    /\ threads[t].pc = "entered"
    /\ mutex_ = NoOwner
    /\ mutex_' = t
    /\ threads' = [threads EXCEPT ![t].pc = "locked"]
    /\ UNCHANGED <<resources_, tsCall>>

\* The statements between the ScopedLock and the return.
TsBody(t) ==
    /\ threads[t].pc = "locked"
    /\ resources_' = BodyMap(threads[t].op, threads[t].name, threads[t].data,
                             resources_)
    /\ threads' = [threads EXCEPT
                     ![t].pc = "finished",
                     ![t].ret = BodyReturn(threads[t].op, threads[t].name,
                                           resources_)]
    /\ UNCHANGED <<mutex_, tsCall>>

\* ScopedLock::~ScopedLock: mutex_.unlock(), then the call returns.
ScopedLockUnlockMutKeepsMutex(t) ==
    /\ threads[t].pc = "finished"
    /\ mutex_' = mutex_
    /\ tsCall' = [thread |-> t, op |-> threads[t].op, ret |-> threads[t].ret]
    /\ threads' = [threads EXCEPT ![t] = IdleThread]
    /\ UNCHANGED <<resources_>>

ScopedLockUnlock(t) ==
    /\ threads[t].pc = "finished"
    /\ mutex_' = NoOwner
    /\ tsCall' = [thread |-> t, op |-> threads[t].op, ret |-> threads[t].ret]
    /\ threads' = [threads EXCEPT ![t] = IdleThread]
    /\ UNCHANGED <<resources_>>

(***************************************************************************)
(* ===========================  SINGLETON  =============================== *)
(* src/dp_crtp.cpp (Singleton<Derived>, Logger),                           *)
(* src/pattern/dp_crtp_optimized.cpp (Singleton<T>, Logger),               *)
(* src/pattern/dp_rule_of_three_optimized.cpp (ModernSingleton)            *)
(***************************************************************************)

\* Number of call sites holding a reference.
NumCallers == 2

\* Longest output recorded.
MaxOut == 2

Callers == 1..NumCallers

SingletonTypes == {"Logger", "ModernSingleton"}

\* The static local before its initialisation has run.
NotConstructed == 0

NoRef == [type |-> "none", object |-> 0]

\* The member functions callable through a reference.
Methods(type) ==
    IF type = "Logger" THEN {"log", "error"} ELSE {"doSomething"}

\* static T instance;  the objects after the declaration is passed: the
\* initialisation runs only the first time control passes through it.
StaticObjects(type, objects, slot) ==
    IF slot[type] = NotConstructed THEN Append(objects, type) ELSE objects

\* static T instance;  the static local after the declaration is passed.
StaticSlotMutNotStatic(type, objects, slot) ==
    [slot EXCEPT ![type] = Len(objects) + 1]

StaticSlot(type, objects, slot) ==
    IF slot[type] = NotConstructed
    THEN [slot EXCEPT ![type] = Len(objects) + 1]
    ELSE slot

SgInit ==
    /\ sgObjects = << >>
    /\ instance = [t \in SingletonTypes |-> NotConstructed]
    /\ refs = [c \in Callers |-> NoRef]
    /\ sgOut = << >>
    /\ sgCall = [op |-> "none", type |-> "none", object |-> 0]

\* auto& r = T::getInstance();
GetInstance(caller, type) ==
    /\ sgObjects' = StaticObjects(type, sgObjects, instance)
    /\ instance' = StaticSlot(type, sgObjects, instance)
    /\ refs' = [refs EXCEPT
                  ![caller] = [type |-> type, object |-> instance'[type]]]
    /\ sgCall' = [op |-> "getInstance", type |-> type,
                  object |-> instance'[type]]
    /\ UNCHANGED sgOut

\* r.log(message) / r.error(message) / r.doSomething()
SgUse(caller, method) ==
    /\ refs[caller] # NoRef
    /\ method \in Methods(refs[caller].type)
    /\ Len(sgOut) < MaxOut
    /\ sgOut' = Append(sgOut, [object |-> refs[caller].object,
                               method |-> method])
    /\ sgCall' = [op |-> method, type |-> refs[caller].type,
                  object |-> refs[caller].object]
    /\ UNCHANGED <<sgObjects, instance, refs>>

\* The reference goes out of scope.
SgDropRef(caller) ==
    /\ refs[caller] # NoRef
    /\ refs' = [refs EXCEPT ![caller] = NoRef]
    /\ sgCall' = [op |-> "drop", type |-> refs[caller].type,
                  object |-> refs[caller].object]
    /\ UNCHANGED <<sgObjects, instance, sgOut>>

(***************************************************************************)
(* ====================  BADRECTANGLE / BADSQUARE  ======================= *)
(* src/pattern/dp_lsp_optimized.cpp, src/dp_lsp.cpp                        *)
(***************************************************************************)

\* Number of BadRectangle* variables.
NumShapes == 2

\* Longest sequence of setter calls made on one object.
MaxSetters == 2

ShapeSlots == 1..NumShapes

\* The dynamic types behind a BadRectangle*.
BadClasses == {"BadRectangle", "BadSquare"}

\* The dimensions passed to the setters.
Dimensions == {3, 5}

NoBadShape == [class |-> "none", width_ |-> 0, height_ |-> 0, setters |-> << >>]

\* new T(): width_ and height_ start at 0.0 (default member initialisers in
\* dp_lsp_optimized.cpp, value-initialisation by new T() in dp_lsp.cpp).
NewShape(class) ==
    [class |-> class, width_ |-> 0, height_ |-> 0, setters |-> << >>]

\* setWidth(width), dispatched on the dynamic type.
SetWidthOf(shape, width) ==
    IF shape.class = "BadSquare"
    THEN [shape EXCEPT !.width_ = width, !.height_ = width]
    ELSE [shape EXCEPT !.width_ = width]

\* setHeight(height), dispatched on the dynamic type.
SetHeightOfMutNotOverridden(shape, height) ==
    [shape EXCEPT !.height_ = height]

SetHeightOf(shape, height) ==
    IF shape.class = "BadSquare"
    THEN [shape EXCEPT !.width_ = height, !.height_ = height]
    ELSE [shape EXCEPT !.height_ = height]

\* getArea()
GetArea(shape) == shape.width_ * shape.height_

LspCall(op, slot, ret) == [op |-> op, slot |-> slot, ret |-> ret]

LspInit ==
    /\ shapes = [s \in ShapeSlots |-> NoBadShape]
    /\ lspCall = LspCall("none", 0, 0)

\* BadRectangle* p = new T();
LspNew(slot, class) ==
    /\ shapes[slot] = NoBadShape
    /\ shapes' = [shapes EXCEPT ![slot] = NewShape(class)]
    /\ lspCall' = LspCall("new", slot, 0)

\* p->setWidth(width)
LspSetWidth(slot, width) ==
    /\ shapes[slot] # NoBadShape
    /\ Len(shapes[slot].setters) < MaxSetters
    /\ shapes' = [shapes EXCEPT
                    ![slot] = [SetWidthOf(shapes[slot], width) EXCEPT
                                 !.setters = Append(@, <<"setWidth", width>>)]]
    /\ lspCall' = LspCall("setWidth", slot, 0)

\* p->setHeight(height)
LspSetHeight(slot, height) ==
    /\ shapes[slot] # NoBadShape
    /\ Len(shapes[slot].setters) < MaxSetters
    /\ shapes' = [shapes EXCEPT
                    ![slot] = [SetHeightOf(shapes[slot], height) EXCEPT
                                 !.setters = Append(@, <<"setHeight", height>>)]]
    /\ lspCall' = LspCall("setHeight", slot, 0)

\* p->getArea()
LspGetArea(slot) ==
    /\ shapes[slot] # NoBadShape
    /\ lspCall' = LspCall("getArea", slot, GetArea(shapes[slot]))
    /\ UNCHANGED shapes

\* delete p;
LspDelete(slot) ==
    /\ shapes[slot] # NoBadShape
    /\ shapes' = [shapes EXCEPT ![slot] = NoBadShape]
    /\ lspCall' = LspCall("delete", slot, 0)

(***************************************************************************)
(* Specifications: one per example program                                 *)
(***************************************************************************)
CmdInit == CmdStart(Builds)

CmdIdle == CmdStart({"x86"})

\* The state of every example program before it starts.
IdleInit ==
    CmdIdle /\ ObsInit /\ CtInit /\ MeInit /\ DrInit /\ MacroInit /\ RcInit
        /\ DbInit /\ RmInit /\ UcInit /\ CrInit /\ TsInit /\ SgInit
        /\ LspInit

InitCmd ==
    CmdInit /\ ObsInit /\ CtInit /\ MeInit /\ DrInit /\ MacroInit /\ RcInit
        /\ DbInit /\ RmInit /\ UcInit /\ CrInit /\ TsInit /\ SgInit
        /\ LspInit

CmdFrame ==
    UNCHANGED <<obsVars, ctVars, meVars, drVars, macroVars, rcVars, dbVars,
                rmVars, ucVars, crVars, tsVars, sgVars, lspVars>>

NextCmd ==
    \/ \E kind \in CmdKinds, v \in CmdValues :
            ExecuteCommand(kind, v) /\ CmdFrame
    \/ Undo /\ CmdFrame
    \/ Redo /\ CmdFrame

SpecCmd == InitCmd /\ [][NextCmd]_vars

InitObs == IdleInit

ObsFrame ==
    UNCHANGED <<cmdVars, ctVars, meVars, drVars, macroVars, rcVars, dbVars,
                rmVars, ucVars, crVars, tsVars, sgVars, lspVars>>

NextObs ==
    \/ \E o \in ObserverIds : Attach(o) /\ ObsFrame
    \/ \E o \in ObserverIds : Detach(o) /\ ObsFrame
    \/ \E m \in DirectMessages : Notify(m) /\ ObsFrame
    \/ \E t \in Readings, h \in Readings, p \in Readings :
            SetMeasurements(t, h, p) /\ ObsFrame

SpecObs == InitObs /\ [][NextObs]_vars

InitCt == IdleInit

CtFrame ==
    UNCHANGED <<cmdVars, obsVars, meVars, drVars, macroVars, rcVars, dbVars,
                rmVars, ucVars, crVars, tsVars, sgVars, lspVars>>

NextCt ==
    \/ \E v \in OperationValues : ContainerAdd(v) /\ CtFrame
    \/ ContainerExecuteAll /\ CtFrame
    \/ ContainerClear /\ CtFrame

SpecCt == InitCt /\ [][NextCt]_vars

InitMe == IdleInit

MeFrame ==
    UNCHANGED <<cmdVars, obsVars, ctVars, drVars, macroVars, rcVars, dbVars,
                rmVars, ucVars, crVars, tsVars, sgVars, lspVars>>

NextMe ==
    \/ \E d \in EraserSlots : MeDefaultConstruct(d) /\ MeFrame
    \/ \E d \in EraserSlots, v \in WrappableValues :
            MeConstruct(d, v) /\ MeFrame
    \/ \E d \in EraserSlots, s \in EraserSlots :
            MeCopyConstruct(d, s) /\ MeFrame
    \/ \E d \in EraserSlots, s \in EraserSlots : MeCopyAssign(d, s) /\ MeFrame
    \/ \E d \in EraserSlots, s \in EraserSlots, keeps \in BOOLEAN :
            MeMoveConstruct(d, s, keeps) /\ MeFrame
    \/ \E d \in EraserSlots, s \in EraserSlots, keeps \in BOOLEAN :
            MeMoveAssign(d, s, keeps) /\ MeFrame
    \/ \E s \in EraserSlots : MePrint(s) /\ MeFrame
    \/ \E s \in EraserSlots, x \in CalcArgs : MeCalculate(s, x) /\ MeFrame
    \/ \E d \in EraserSlots, s \in EraserSlots : MeClone(d, s) /\ MeFrame
    \/ \E s \in EraserSlots : MeDestroy(s) /\ MeFrame

SpecMe == InitMe /\ [][NextMe]_vars

InitDr == IdleInit

DrFrame ==
    UNCHANGED <<cmdVars, obsVars, ctVars, meVars, macroVars, rcVars, dbVars,
                rmVars, ucVars, crVars, tsVars, sgVars, lspVars>>

NextDr ==
    \/ \E d \in DrawableSlots, v \in ShapeValues : DrWrap(d, v) /\ DrFrame
    \/ \E d \in DrawableSlots, s \in DrawableSlots :
            DrCopyFromLvalue(d, s) /\ DrFrame
    \/ \E d \in DrawableSlots, s \in DrawableSlots, ub \in UBOutcomes :
            DrCopyFromConst(d, s, ub) /\ DrFrame
    \/ \E d \in DrawableSlots, s \in DrawableSlots, ub \in UBOutcomes :
            DrCopyAssign(d, s, ub) /\ DrFrame
    \/ \E d \in DrawableSlots, s \in DrawableSlots :
            DrMoveConstruct(d, s) /\ DrFrame
    \/ \E d \in DrawableSlots, s \in DrawableSlots :
            DrMoveAssign(d, s) /\ DrFrame
    \/ \E d \in DrawableSlots : DrDestroy(d) /\ DrFrame
    \/ \E d \in DrawableSlots, ub \in UBOutcomes : DrDraw(d, ub) /\ DrFrame

SpecDr == InitDr /\ [][NextDr]_vars

InitMacro ==
    CmdStart({"x86", "trapv"}) /\ ObsInit /\ CtInit /\ MeInit /\ DrInit
        /\ MacroInit /\ RcInit /\ DbInit /\ RmInit /\ UcInit /\ CrInit
        /\ TsInit /\ SgInit /\ LspInit

MacroFrame ==
    UNCHANGED <<cmdVars, obsVars, ctVars, meVars, drVars, rcVars, dbVars,
                rmVars, ucVars, crVars, tsVars, sgVars, lspVars>>

NextMacro ==
    \/ \E c \in MacroChoices : MacroAddCommand(c[1], c[2]) /\ MacroFrame
    \/ MacroExecute /\ MacroFrame
    \/ MacroUndo /\ MacroFrame

SpecMacro == InitMacro /\ [][NextMacro]_vars

InitRc == IdleInit

RcFrame ==
    UNCHANGED <<cmdVars, obsVars, ctVars, meVars, drVars, macroVars, dbVars,
                rmVars, ucVars, crVars, tsVars, sgVars, lspVars>>

NextRc ==
    \/ \E slot \in RcSlots : OnButtonWasPushed(slot) /\ RcFrame
    \/ \E slot \in RcSlots : OffButtonWasPushed(slot) /\ RcFrame
    \/ UndoButtonWasPushed /\ RcFrame

SpecRc == InitRc /\ [][NextRc]_vars

InitDb == IdleInit

DbFrame ==
    UNCHANGED <<cmdVars, obsVars, ctVars, meVars, drVars, macroVars, rcVars,
                rmVars, ucVars, crVars, tsVars, sgVars, lspVars>>

NextDb ==
    \/ \E d \in DbSlots, class \in DbClasses, str \in ConnectionStrings :
            DbConstruct(d, class, str) /\ DbFrame
    \/ \E d \in DbSlots : DbDestroy(d) /\ DbFrame
    \/ \E d \in DbSlots, s \in DbSlots : DbMoveConstruct(d, s) /\ DbFrame
    \/ \E d \in DbSlots, s \in DbSlots : DbMoveAssign(d, s) /\ DbFrame
    \/ \E d \in DbSlots : DbDisconnect(d) /\ DbFrame
    \/ \E d \in DbSlots : DbExecuteQuery(d) /\ DbFrame

SpecDb == InitDb /\ [][NextDb]_vars

InitRm == IdleInit

RmFrame ==
    UNCHANGED <<cmdVars, obsVars, ctVars, meVars, drVars, macroVars, rcVars,
                dbVars, ucVars, crVars, tsVars, sgVars, lspVars>>

NextRm ==
    \/ \E d \in ManagerSlots, class \in ManagerClasses, n \in BufSizes :
            RmConstruct(d, class, n) /\ RmFrame
    \/ \E d \in ManagerSlots, s \in ManagerSlots :
            RmCopyConstruct(d, s) /\ RmFrame
    \/ \E d \in ManagerSlots, s \in ManagerSlots :
            RmCopyAssign(d, s) /\ RmFrame
    \/ \E d \in ManagerSlots, s \in ManagerSlots :
            RmMoveConstruct(d, s) /\ RmFrame
    \/ \E d \in ManagerSlots, s \in ManagerSlots :
            RmMoveAssign(d, s) /\ RmFrame
    \/ \E d \in ManagerSlots : RmDestroy(d) /\ RmFrame
    \/ \E d \in ManagerSlots, index \in CellIndices, value \in CellValues :
            RmSetValue(d, index, value) /\ RmFrame
    \/ \E d \in ManagerSlots, index \in CellIndices, junk \in CellValues :
            RmGetValue(d, index, junk) /\ RmFrame

SpecRm == InitRm /\ [][NextRm]_vars

InitUc == IdleInit

UcFrame ==
    UNCHANGED <<cmdVars, obsVars, ctVars, meVars, drVars, macroVars, rcVars,
                dbVars, rmVars, crVars, tsVars, sgVars, lspVars>>

NextUc ==
    \/ \E name \in UserNames, email \in UserEmails :
            CreateUser(name, email) /\ UcFrame
    \/ \E id \in UserIds : GetUser(id) /\ UcFrame
    \/ ListUsers /\ UcFrame

SpecUc == InitUc /\ [][NextUc]_vars

InitCr == IdleInit

CrFrame ==
    UNCHANGED <<cmdVars, obsVars, ctVars, meVars, drVars, macroVars, rcVars,
                dbVars, rmVars, ucVars, tsVars, sgVars, lspVars>>

NextCr ==
    \/ \E slot \in CrSlots, type \in CountedTypes :
            CrConstruct(slot, type) /\ CrFrame
    \/ \E slot \in CrSlots, src \in CrSlots :
            CrCopyConstruct(slot, src) /\ CrFrame
    \/ \E slot \in CrSlots, src \in CrSlots :
            CrMoveConstruct(slot, src) /\ CrFrame
    \/ \E dst \in CrSlots, src \in CrSlots : CrAssign(dst, src) /\ CrFrame
    \/ \E slot \in CrSlots : CrDestroy(slot) /\ CrFrame
    \/ \E type \in CountedTypes : CrGetCount(type) /\ CrFrame

SpecCr == InitCr /\ [][NextCr]_vars

InitTs == IdleInit

TsFrame ==
    UNCHANGED <<cmdVars, obsVars, ctVars, meVars, drVars, macroVars, rcVars,
                dbVars, rmVars, ucVars, crVars, sgVars, lspVars>>

NextTs ==
    \/ \E t \in Threads, op \in TsOps, name \in ResourceNames,
          data \in ResourceData \cup {""} :
            TsEnter(t, op, name, data) /\ TsFrame
    \/ \E t \in Threads : ScopedLockLock(t) /\ TsFrame
    \/ \E t \in Threads : TsBody(t) /\ TsFrame
    \/ \E t \in Threads : ScopedLockUnlock(t) /\ TsFrame

SpecTs == InitTs /\ [][NextTs]_vars

InitSg == IdleInit

SgFrame ==
    UNCHANGED <<cmdVars, obsVars, ctVars, meVars, drVars, macroVars, rcVars,
                dbVars, rmVars, ucVars, crVars, tsVars, lspVars>>

NextSg ==
    \/ \E caller \in Callers, type \in SingletonTypes :
            GetInstance(caller, type) /\ SgFrame
    \/ \E caller \in Callers, method \in {"log", "error", "doSomething"} :
            SgUse(caller, method) /\ SgFrame
    \/ \E caller \in Callers : SgDropRef(caller) /\ SgFrame

SpecSg == InitSg /\ [][NextSg]_vars

InitLsp == IdleInit

LspFrame ==
    UNCHANGED <<cmdVars, obsVars, ctVars, meVars, drVars, macroVars, rcVars,
                dbVars, rmVars, ucVars, crVars, tsVars, sgVars>>

NextLsp ==
    \/ \E slot \in ShapeSlots, class \in BadClasses :
            LspNew(slot, class) /\ LspFrame
    \/ \E slot \in ShapeSlots, width \in Dimensions :
            LspSetWidth(slot, width) /\ LspFrame
    \/ \E slot \in ShapeSlots, height \in Dimensions :
            LspSetHeight(slot, height) /\ LspFrame
    \/ \E slot \in ShapeSlots : LspGetArea(slot) /\ LspFrame
    \/ \E slot \in ShapeSlots : LspDelete(slot) /\ LspFrame

SpecLsp == InitLsp /\ [][NextLsp]_vars

(***************************************************************************)
(* Claims about the command invoker                                        *)
(***************************************************************************)

C10_ExecuteClearsRedo ==
    /\ [](lastOp = "exec" => ~canRedo)
    /\ [][ (lastOp = "exec" /\ lastOp' = "redo")
            => (/\ ~lastDid'
                /\ result_' = result_
                /\ undoStack_' = undoStack_
                /\ redoStack_' = redoStack_) ]_vars

\* C10 witness: an executeCommand that discarded two undone commands.
C10_Witness ==
    /\ lastOp = "exec"
    /\ dropped >= 2
    /\ ~canRedo
    /\ canUndo

(***************************************************************************)
(* Claims about the type-erasure container                                 *)
(***************************************************************************)

\* C3: with N values added by N add() calls, one executeAll() pass runs the
\* element operation exactly N times, once per stored element, in insertion
\* order: the i-th line written is the one the i-th added value writes.
C3_ExecuteAllInOrder ==
    ctOp = "executeAll" =>
        /\ Len(executed) = Len(added)
        /\ ContainerSize = Len(added)
        /\ \A i \in 1..Len(added) : executed[i] = OperationExecute(added[i])

\* C3 witness: the container of main() (print, math, print) after executeAll.
C3_Witness ==
    /\ ctOp = "executeAll"
    /\ added = <<[type |-> "Print", arg |-> "Hello, Type Erasure!"],
                 [type |-> "Math", arg |-> 42],
                 [type |-> "Print", arg |-> "Another message"]>>
    /\ executed = <<<<"Printing: ", "Hello, Type Erasure!">>,
                    <<"Calculating with value: ", 42>>,
                    <<"Printing: ", "Another message">>>>

(***************************************************************************)
(* Claims about the weather station                                        *)
(***************************************************************************)
Notified == obsOp \in {"notify", "setMeasurements"}

\* Number of update() calls the last notify() made on observer o.
UpdateCount(o) == Cardinality({i \in 1..Len(updates) : updates[i].observer = o})

\* The observers of the update() calls, in call order.
UpdateOrder == [i \in 1..Len(updates) |-> updates[i].observer]

\* C8 as stated: after a state change every observer that is attached has had
\* update() called exactly once with the new message, an observer that is not
\* attached has had none.
C8_OncePerAttachedObserver ==
    Notified =>
        /\ \A o \in ObserverIds :
              UpdateCount(o) = IF o \in attachedSet THEN 1 ELSE 0
        /\ \A i \in 1..Len(updates) : updates[i].message = obsMsg

\* C8 as amended: notify() calls update() once for every entry of the observer
\* list, in list order (the order of the attach calls whose entry is still
\* held), each with the new message; an observer attached k times and detached
\* j < k times is called k - j times, and an observer with no entry is not
\* called.
C8_OncePerAttachment ==
    Notified =>
        /\ UpdateOrder = observers
        /\ \A o \in ObserverIds : UpdateCount(o) = attachCount[o]
        /\ \A i \in 1..Len(updates) : updates[i].message = obsMsg
        /\ obsOp = "setMeasurements" =>
              obsMsg = WeatherMessage(temperature, humidity, pressure)

\* C8 witness: a notification from setMeasurements with one observer attached
\* twice and another attached once.
C8_Witness ==
    /\ obsOp = "setMeasurements"
    /\ temperature = 1
    /\ \E o \in ObserverIds : attachCount[o] = 2 /\ UpdateCount(o) = 2
    /\ \E o \in ObserverIds : attachCount[o] = 1 /\ UpdateCount(o) = 1
    /\ \E o \in ObserverIds : attachCount[o] = 0 /\ UpdateCount(o) = 0

(***************************************************************************)
(* Claims about ModernTypeEraser (SpecMe)                                  *)
(***************************************************************************)

C5_SingleStoredValue ==
    \A s \in EraserSlots :
        erasers[s].live =>
            /\ erasers[s].printFunc_.has => ~erasers[s].printFunc_.fromMoved
            /\ erasers[s].calculateFunc_.has
                  => ~erasers[s].calculateFunc_.fromMoved
            /\ erasers[s].cloneFunc_.has => ~erasers[s].cloneFunc_.fromMoved

\* C6 (as stated): no operation on a live eraser changes the concrete
\* behaviours it dispatches to.
C6_BehavioursNeverChange ==
    [][\A s \in EraserSlots :
          (erasers[s].live /\ erasers'[s].live)
              => Behaviours(erasers'[s]) = Behaviours(erasers[s])]_vars

\* C6 (amended): print, calculate and clone leave the behaviours of every
\* eraser as they were; only an assignment changes the behaviours of an
\* existing eraser: the destination takes over the behaviours of the source,
\* and the source of a move either keeps its behaviours or is left with none.
C6_BehavioursChangeOnlyByAssignment ==
    [][\A s \in EraserSlots :
          (erasers[s].live /\ erasers'[s].live) =>
            /\ meCall'.op \in {"print", "calculate", "clone"}
                  => Behaviours(erasers'[s]) = Behaviours(erasers[s])
            /\ ( /\ meCall'.op \in {"copyAssign", "moveAssign"}
                 /\ s = meCall'.slot
                 /\ s # meCall'.src )
                  => Behaviours(erasers'[s])
                         = Behaviours(erasers[meCall'.src])
            /\ Behaviours(erasers'[s]) # Behaviours(erasers[s]) =>
                  \/ /\ meCall'.op \in {"copyAssign", "moveAssign"}
                     /\ s = meCall'.slot
                  \/ /\ meCall'.op \in {"moveConstruct", "moveAssign"}
                     /\ s = meCall'.src
                     /\ Behaviours(erasers'[s]) = NoBehaviours]_vars

C6_Witness ==
    /\ meCall.op = "copyAssign"
    /\ meCall.prev.calculate = "Calculator"
    /\ Behaviours(erasers[meCall.slot]).calculate = "Adder"

C2_CopyNeverAliases ==
    /\ \A d \in DrawableSlots :
          (drawables[d].live /\ drawables[d].pImpl # Null)
              => models[drawables[d].pImpl].kind = "value"
    /\ ( /\ drCall.op \in {"copyFromLvalue", "copyFromConst", "copyAssign"}
         /\ drCall.status = "returned"
         /\ drCall.slot # drCall.src )
          => /\ drawables[drCall.slot].pImpl # Null
             /\ drawables[drCall.slot].pImpl # drawables[drCall.src].pImpl

\* C4 (as stated): after a move the destination holds the Model the source
\* held, the source holds none, and as many Models are alive as before.
C4_MoveKeepsValueCount ==
    drCall.op \in {"moveConstruct", "moveAssign"} =>
        /\ drawables[drCall.slot].pImpl = drCall.moved
        /\ drawables[drCall.src].pImpl = Null
        /\ Cardinality(LiveModels) = Cardinality(drCall.liveBefore)

\* C4 (amended): a move between two distinct Drawables hands the very Model
\* of the source to the destination and leaves the source with none; no
\* Model is created, no other Drawable holds the moved Model, and the only
\* Model that ceases to exist is the one a move assignment found in the
\* destination.  A move assignment of a Drawable to itself changes nothing.
C4_MoveTransfersValue ==
    /\ ( /\ drCall.op \in {"moveConstruct", "moveAssign"}
         /\ drCall.slot # drCall.src ) =>
          /\ drawables[drCall.slot].pImpl = drCall.moved
          /\ drawables[drCall.src].pImpl = Null
          /\ \A d \in DrawableSlots :
                (d # drCall.slot /\ drCall.moved # Null)
                    => drawables[d].pImpl # drCall.moved
          /\ LiveModels = drCall.liveBefore \ {drCall.replaced}
          /\ drCall.replaced = Null
                => Cardinality(LiveModels) = Cardinality(drCall.liveBefore)
    /\ ( /\ drCall.op = "moveAssign"
         /\ drCall.slot = drCall.src ) =>
          /\ drawables[drCall.slot].pImpl = drCall.moved
          /\ LiveModels = drCall.liveBefore

C4_Witness ==
    /\ drCall.op = "moveAssign"
    /\ drCall.slot # drCall.src
    /\ drCall.moved # Null
    /\ drCall.replaced # Null
    /\ models[drCall.moved].kind = "value"
    /\ drawables[drCall.slot].pImpl = drCall.moved
    /\ drawables[drCall.src].pImpl = Null
    /\ Cardinality(LiveModels) = Cardinality(drCall.liveBefore) - 1

(***************************************************************************)
(* Claims about MacroCommand (SpecMacro)                                   *)
(***************************************************************************)
Ascending(n) == [i \in 1..n |-> i]

Descending(n) == [i \in 1..n |-> n + 1 - i]

\* C11: execute() runs the commands of the macro in the order they were
\* added, undo() undoes them in the reverse order, and an undo() that follows
\* an execute() of a macro gives the calculator the result it had before that
\* execute().
C11_MacroUndoRestores ==
    /\ [](macroOp = "execute" => macroTrace = Ascending(Len(commands_)))
    /\ [](macroOp = "undo" => macroTrace = Descending(Len(commands_)))
    /\ [][(macroOp = "execute" /\ macroOp' = "undo")
             => macroCalc' = macroBefore]_vars

C11_Witness ==
    /\ macroOp = "undo"
    /\ Len(commands_) = 3
    /\ macroTrace = <<3, 2, 1>>
    /\ macroCalc = macroBefore
    /\ commands_[3].previousResult_ # macroBefore

(***************************************************************************)
(* Claims about RemoteControl (SpecRc)                                     *)
(***************************************************************************)

\* C12: repeated presses of the undo button undo successively earlier
\* commands: the k-th press in a row runs undo() of the k-th latest command
\* run by a button, so after the garage door and then the stereo were
\* switched on, the second press closes the garage door.
C12_UndoWalksBack ==
    /\ (rcOp = "undo" /\ rcUndos <= Len(rcPushed))
          => rcUndone = rcPushed[Len(rcPushed) + 1 - rcUndos]
    /\ ( /\ rcOp = "undo"
         /\ rcUndos = 2
         /\ Len(rcPushed) >= 2
         /\ rcPushed[Len(rcPushed)] = "stereoOnWithCD"
         /\ rcPushed[Len(rcPushed) - 1] = "garageDoorOpen" )
          => ~devices.garageDoor

(***************************************************************************)
(* Claims about DatabaseConnection (SpecDb)                                *)
(***************************************************************************)

C14_NoSharedBuffer ==
    /\ [](~rmFault)
    /\ [](\A d \in ManagerSlots, e \in ManagerSlots :
            ( /\ d # e
              /\ managers[d].live /\ managers[e].live
              /\ managers[d].data # NullData )
                => managers[d].data # managers[e].data)
    /\ [](\A b \in BufferIds :
            buffers[b].alive <=>
                \E d \in ManagerSlots :
                    managers[d].live /\ managers[d].data = b)
    /\ []( ( /\ rmCall.op \in {"copyConstruct", "copyAssign"}
             /\ rmCall.slot # rmCall.src )
              => Contents(managers[rmCall.slot])
                     = Contents(managers[rmCall.src]))
    /\ [][rmCall'.op = "setValue" =>
            \A e \in ManagerSlots :
                (e # rmCall'.slot /\ managers[e].live)
                    => /\ managers'[e] = managers[e]
                       /\ managers[e].data # NullData
                             => buffers'[managers[e].data]
                                    = buffers[managers[e].data]]_vars

C14_Witness ==
    LET d == rmCall.slot
        e == managers[d].from
    IN /\ rmCall.op = "setValue"
       /\ e # 0
       /\ e # d
       /\ managers[e].live
       /\ managers[e].size = managers[d].size
       /\ Contents(managers[e])[1] \in CellValues
       /\ Contents(managers[e])[1] # Contents(managers[d])[1]

(***************************************************************************)
(* Claims about UserController (SpecUc)                                    *)
(***************************************************************************)
InvalidUserData(name, email) ==
    \/ name = << >>
    \/ email = << >>
    \/ ~(\E i \in 1..Len(email) : email[i] = "@")

\* C15: createUser with an empty name, an empty email or an email without
\* '@' presents an error and leaves the repository as it was: nothing is
\* saved, no id is used up, and a listUsers that follows presents exactly
\* the users stored before the call.
C15_InvalidUserRejected ==
    /\ []( ( /\ ucCall.op = "createUser"
             /\ InvalidUserData(ucCall.name, ucCall.email) )
              => ucCall.kind = "error")
    /\ [][ ( /\ ucCall'.op = "createUser"
             /\ InvalidUserData(ucCall'.name, ucCall'.email) )
              => users_' = users_ /\ nextId' = nextId ]_vars
    /\ [][ ( /\ ucCall.op = "createUser"
             /\ ucCall.kind = "error"
             /\ ucCall'.op = "listUsers" )
              => ucCall'.shown = users_ ]_vars

C15_Witness ==
    /\ ucCall.op = "createUser"
    /\ ucCall.name = << >>
    /\ ucCall.email = <<"i", "n", "v">>
    /\ ucCall.kind = "error"
    /\ ucCall.shown = <<"Name cannot be empty">>
    /\ Len(users_) = 2

(***************************************************************************)
(* Claims about CRTP object counting (SpecCr)                              *)
(***************************************************************************)

\* The live objects of a counted type.
LiveObjects(type) == {s \in CrSlots : crObjects[s] = type}

\* C16: after any sequence of constructions, copies and destructions,
\* getCount() of every counted type equals the number of live objects of
\* that type (so it never wraps around and no type's count depends on
\* another type's objects).
C16_CountEqualsLive ==
    \A type \in CountedTypes : GetCount(type) = Cardinality(LiveObjects(type))

(***************************************************************************)
(* Claims about ThreadSafeResourceManager (SpecTs)                         *)
(***************************************************************************)

\* The threads inside an operation's critical section.
InCriticalSection == {t \in Threads : threads[t].pc \in {"locked", "finished"}}

\* C17: under any interleaving of addResource, getResource and
\* removeResource calls, at most one thread is inside a critical section,
\* that thread is the owner of the mutex, and a thread that is outside its
\* critical section (it has returned, or has not yet locked) does not hold
\* the mutex: no call leaves the mutex held.
C17_MutualExclusionAndRelease ==
    /\ Cardinality(InCriticalSection) <= 1
    /\ \A t \in Threads : t \in InCriticalSection <=> mutex_ = t
    /\ InCriticalSection = {} => mutex_ = NoOwner

\* Witness: a call has returned and released the mutex, another thread has
\* since locked it, and a second thread is waiting in the ScopedLock
\* constructor.
C17_Witness ==
    /\ tsCall.op # "none"
    /\ \E t, u \in Threads :
          /\ t # u
          /\ threads[t].pc = "locked"
          /\ threads[u].pc = "entered"
          /\ tsCall.thread = u

(***************************************************************************)
(* Claims about the singletons (SpecSg)                                    *)
(***************************************************************************)

\* The objects of a singleton type constructed so far.
Constructed(type) == {i \in 1..Len(sgObjects) : sgObjects[i] = type}

\* C18: at most one instance of each singleton type is ever constructed,
\* every getInstance() returns that instance (so any two references of one
\* type denote the same object), and whatever was done through one
\* reference was done to the object every later getInstance() returns.
C18_OneSharedInstance ==
    /\ \A type \in SingletonTypes : Cardinality(Constructed(type)) <= 1
    /\ \A c \in Callers :
          refs[c] # NoRef => /\ refs[c].object = instance[refs[c].type]
                             /\ refs[c].object \in Constructed(refs[c].type)
    /\ \A c, d \in Callers :
          (refs[c] # NoRef /\ refs[c].type = refs[d].type)
             => refs[c].object = refs[d].object
    /\ \A i \in 1..Len(sgOut) :
          \A type \in SingletonTypes :
             sgOut[i].method \in Methods(type)
                => sgOut[i].object = instance[type]

\* Witness: two callers hold references of the same singleton type obtained
\* by separate getInstance() calls, after the object was already used
\* through a reference.
C18_Witness ==
    /\ sgCall.op = "getInstance"
    /\ Len(sgOut) > 0
    /\ sgOut[1].object = sgCall.object
    /\ \E c, d \in Callers :
          /\ c # d
          /\ refs[c] # NoRef
          /\ refs[c] = refs[d]
          /\ refs[c].type = sgCall.type

(***************************************************************************)
(* Claims about BadRectangle / BadSquare (SpecLsp)                         *)
(***************************************************************************)

\* The calls of main: setWidth(5); setHeight(3).
MainSetters == <<(<<"setWidth", 5>>), (<<"setHeight", 3>>)>>

\* C19: on a BadSquare every setter changes both dimensions to its
\* argument, so width equals height after any sequence of setter calls;
\* after setWidth(5); setHeight(3) the area is 9 on a BadSquare and 15 on a
\* BadRectangle, and getArea() returns the area of the object it is
\* called on.
C19_SquareBreaksSubstitution ==
    /\ \A s \in ShapeSlots :
          shapes[s].class = "BadSquare" =>
             /\ shapes[s].width_ = shapes[s].height_
             /\ shapes[s].setters # << >> =>
                   shapes[s].width_ = Last(shapes[s].setters)[2]
    /\ \A s \in ShapeSlots :
          shapes[s].setters = MainSetters =>
             /\ shapes[s].class = "BadSquare" => GetArea(shapes[s]) = 9
             /\ shapes[s].class = "BadRectangle" => GetArea(shapes[s]) = 15
    /\ lspCall.op = "getArea" => lspCall.ret = GetArea(shapes[lspCall.slot])

\* Witness: a BadSquare and a BadRectangle have both received
\* setWidth(5); setHeight(3), and getArea() on the square has returned 9.
C19_Witness ==
    \E s, r \in ShapeSlots :
       /\ shapes[s].class = "BadSquare"
       /\ shapes[r].class = "BadRectangle"
       /\ shapes[s].setters = MainSetters
       /\ shapes[r].setters = MainSetters
       /\ lspCall = LspCall("getArea", s, 9)
       /\ GetArea(shapes[r]) = 15

====
